---- MODULE Spec2Model ----
(***************************************************************************)
(* ResumeAI Pro: the content script (src/content.js).                      *)
(*                                                                         *)
(* JobDescriptionExtractor classifies the current page, extracts a job     *)
(* posting from the DOM, keeps it in memory, notifies the background and   *)
(* rescans after DOM mutations.  Strings are TLA+ strings (Len, SubSeq and *)
(* \o work on them); the DOM is a sequence of elements in document order.  *)
(***************************************************************************)
EXTENDS Integers, Sequences, FiniteSets, TLC

(***************************************************************************)
(* JavaScript values and string primitives                                 *)
(***************************************************************************)

\* JavaScript null where a string is expected (never a text of the model)
Null == "<null>"

\* this.jobData = null
NoJob == [isNull |-> TRUE]

\* a value is truthy in `if (x)` / `!x`: neither null nor the empty string
Truthy(s) == s # Null /\ s # ""

\* the characters \s matches and trim() removes, as far as the model's texts
\* contain them
WhiteSpace == {" ", "\n", "\t"}

CharAt(s, i) == SubSeq(s, i, i)

UpperCase == "ABCDEFGHIJKLMNOPQRSTUVWXYZ"
LowerCase == "abcdefghijklmnopqrstuvwxyz"

IsLetter(c) ==
    \E i \in 1..26 : CharAt(UpperCase, i) = c \/ CharAt(LowerCase, i) = c

LowerChar(c) ==
    IF \E i \in 1..26 : CharAt(UpperCase, i) = c
    THEN CharAt(LowerCase, CHOOSE i \in 1..26 : CharAt(UpperCase, i) = c)
    ELSE c

\* the characters lo..hi of s in lower case (halving keeps the evaluation
\* shallow on long texts)
RECURSIVE LowerRange(_, _, _)
LowerRange(s, lo, hi) ==
    IF lo > hi THEN ""
    ELSE IF lo = hi THEN LowerChar(CharAt(s, lo))
    ELSE LET mid == (lo + hi) \div 2
         IN  LowerRange(s, lo, mid) \o LowerRange(s, mid + 1, hi)

\* String.prototype.toLowerCase
ToLowerCase(s) == LowerRange(s, 1, Len(s))

\* String.prototype.includes
Includes(s, w) ==
    \E i \in 1..(Len(s) - Len(w) + 1) : SubSeq(s, i, i + Len(w) - 1) = w

\* String.prototype.trim
Trim(s) ==
    LET keep == {i \in 1..Len(s) : CharAt(s, i) \notin WhiteSpace}
    IN  IF keep = {} THEN ""
        ELSE SubSeq(s, CHOOSE i \in keep : \A j \in keep : i <= j,
                       CHOOSE i \in keep : \A j \in keep : j <= i)

\* n copies of the string c
RECURSIVE Repeat(_, _)
Repeat(c, n) ==
    IF n = 0 THEN ""
    ELSE LET half == Repeat(c, n \div 2)
         IN  half \o half \o (IF n % 2 = 1 THEN c ELSE "")

(***************************************************************************)
(* The DOM: a document is a sequence of elements in document order.  An    *)
(* element has a tag, a class attribute, an id, one data attribute         *)
(* (attr = val), the class attribute of an ancestor (anc) and its          *)
(* textContent.                                                            *)
(***************************************************************************)

El(tag, cls, text) ==
    [tag |-> tag, cls |-> cls, id |-> "", attr |-> "", val |-> "", anc |-> "",
     text |-> text]

\* a simple selector: every non-empty field constrains the element
SelAny ==
    [tag |-> "", cls |-> "", sub |-> "", id |-> "", attr |-> "", val |-> "",
     anc |-> ""]
\* 'h1'
SelTag(t) == [SelAny EXCEPT !.tag = t]
\* '.job-title'
SelClass(c) == [SelAny EXCEPT !.cls = c]
\* 'h1.job-title'
SelTagClass(t, c) == [SelAny EXCEPT !.tag = t, !.cls = c]
\* '[class*="company"]'
SelClassSub(s) == [SelAny EXCEPT !.sub = s]
\* 'h1[class*="title"]'
SelTagClassSub(t, s) == [SelAny EXCEPT !.tag = t, !.sub = s]
\* '#jobDescriptionText'
SelId(i) == [SelAny EXCEPT !.id = i]
\* '[data-testid="company-name"]'
SelAttr(a, v) == [SelAny EXCEPT !.attr = a, !.val = v]
\* 'h1[data-testid="job-title"]'
SelTagAttr(t, a, v) == [SelAny EXCEPT !.tag = t, !.attr = a, !.val = v]
\* '.job-header h1'
SelInside(c, t) == [SelAny EXCEPT !.anc = c, !.tag = t]

\* the class attribute `attrValue` lists the class c
HasClass(attrValue, c) == Includes(" " \o attrValue \o " ", " " \o c \o " ")

\* Element.matches for one simple selector
Matches(el, sel) ==
    /\ sel.tag = "" \/ el.tag = sel.tag
    /\ sel.cls = "" \/ HasClass(el.cls, sel.cls)
    /\ sel.sub = "" \/ Includes(el.cls, sel.sub)
    /\ sel.id = "" \/ el.id = sel.id
    /\ sel.attr = "" \/ (el.attr = sel.attr /\ el.val = sel.val)
    /\ sel.anc = "" \/ HasClass(el.anc, sel.anc)

\* document.querySelector(group) for a comma-separated selector group: the
\* index of the first element, in document order, that matches any selector
\* of the group; 0 when there is none
QuerySelector(els, group) ==
    LET hits == {i \in 1..Len(els) :
                    \E k \in 1..Len(group) : Matches(els[i], group[k])}
    IN  IF hits = {} THEN 0 ELSE CHOOSE i \in hits : \A j \in hits : i <= j

\* document.body.textContent: the texts of the elements in document order
RECURSIVE TextFrom(_, _)
TextFrom(els, i) ==
    IF i > Len(els) THEN "" ELSE els[i].text \o TextFrom(els, i + 1)

BodyText(els) == TextFrom(els, 1)

(***************************************************************************)
(* Page classification: detectJobPage / detectJobKeywords                  *)
(***************************************************************************)

jobBoards ==
    << "linkedin.com", "indeed.com", "glassdoor.com", "monster.com",
       "ziprecruiter.com", "careerbuilder.com", "dice.com", "angel.co",
       "wellfound.com" >>

jobKeywords ==
    << "job", "career", "position", "opening", "opportunity",
       "employment", "hiring", "recruitment", "vacancy" >>

\* Array.prototype.some over a sequence of strings: TRUE when P holds of one
SomeIncluded(s, words) == \E k \in 1..Len(words) : Includes(s, words[k])

\* detectJobKeywords() with the toLowerCase calls forgotten
detectJobKeywords_CaseSensitive(p) ==
    \E k \in 1..Len(jobKeywords) :
        \/ Includes(p.url, jobKeywords[k])
        \/ Includes(p.title, jobKeywords[k])
        \/ Includes(BodyText(p.els), jobKeywords[k])

\* detectJobKeywords(): a keyword in the lower-cased URL, title or body text
detectJobKeywords(p) ==
    LET url == ToLowerCase(p.url)
        title == ToLowerCase(p.title)
        bodyText == ToLowerCase(BodyText(p.els))
    IN  \E k \in 1..Len(jobKeywords) :
            \/ Includes(url, jobKeywords[k])
            \/ Includes(title, jobKeywords[k])
            \/ Includes(bodyText, jobKeywords[k])

\* the value detectJobPage assigns to this.isJobPage (lines 51-52)
Classify(p) ==
    SomeIncluded(p.hostname, jobBoards) \/ detectJobKeywords(p)

(***************************************************************************)
(* Text normalisation and title plausibility                               *)
(***************************************************************************)

\* text.replace(/\s+/g, ' '): every maximal run of whitespace becomes one
\* space
RECURSIVE CollapseFrom(_, _)
CollapseFrom(s, i) ==
    LET spaces == {j \in i..Len(s) : CharAt(s, j) \in WhiteSpace}
    IN  IF spaces = {} THEN SubSeq(s, i, Len(s))
        ELSE LET first == CHOOSE j \in spaces : \A k \in spaces : j <= k
                 after == {j \in first..Len(s) : CharAt(s, j) \notin WhiteSpace}
                 next == IF after = {} THEN Len(s) + 1
                         ELSE CHOOSE j \in after : \A k \in after : j <= k
             IN  SubSeq(s, i, first - 1) \o " " \o CollapseFrom(s, next)

CollapseWhiteSpace(s) == CollapseFrom(s, 1)

\* text.replace(/\n\s*\n/g, '\n'): a newline, a greedy run of whitespace and
\* a closing newline become one newline
\* the positions that close a match opened by the newline at position i
Closers(s, i) ==
    {j \in (i + 1)..Len(s) :
        /\ CharAt(s, j) = "\n"
        /\ \A k \in (i + 1)..j : CharAt(s, k) \in WhiteSpace}

RECURSIVE BlankLinesFrom(_, _)
BlankLinesFrom(s, i) ==
    LET opens == {j \in i..Len(s) : CharAt(s, j) = "\n" /\ Closers(s, j) # {}}
    IN  IF opens = {} THEN SubSeq(s, i, Len(s))
        ELSE LET first == CHOOSE j \in opens : \A k \in opens : j <= k
                 last == CHOOSE j \in Closers(s, first) :
                             \A k \in Closers(s, first) : k <= j
             IN  SubSeq(s, i, first - 1) \o "\n" \o BlankLinesFrom(s, last + 1)

CollapseBlankLines(s) == BlankLinesFrom(s, 1)

\* text.replace(/\s\s/g, ' '): whitespace collapsed pair by pair instead of
\* run by run
RECURSIVE CollapsePairsFrom(_, _)
CollapsePairsFrom(s, i) ==
    IF i > Len(s) THEN ""
    ELSE IF i < Len(s) /\ CharAt(s, i) \in WhiteSpace /\ CharAt(s, i + 1) \in WhiteSpace
         THEN " " \o CollapsePairsFrom(s, i + 2)
         ELSE CharAt(s, i) \o CollapsePairsFrom(s, i + 1)

\* cleanText(text) with the first replace collapsing pairs
cleanText_CollapsePairs(text) == Trim(CollapseBlankLines(CollapsePairsFrom(text, 1)))

\* cleanText(text)
cleanText(text) == Trim(CollapseBlankLines(CollapseWhiteSpace(text)))

invalidTitles ==
    << "home", "about", "contact", "login", "sign up", "search",
       "jobs", "careers", "company", "team", "news", "blog" >>

\* isValidJobTitle(title) with the length test off by one
isValidJobTitle_OffByOne(title) ==
    IF ~Truthy(title) \/ Len(title) <= 3 THEN FALSE
    ELSE ~ \E k \in 1..Len(invalidTitles) :
               Includes(ToLowerCase(title), invalidTitles[k])

\* isValidJobTitle(title)
isValidJobTitle(title) ==
    IF ~Truthy(title) \/ Len(title) < 3 THEN FALSE
    ELSE LET lowerTitle == ToLowerCase(title)
         IN  ~ \E k \in 1..Len(invalidTitles) : Includes(lowerTitle, invalidTitles[k])

(***************************************************************************)
(* Field extraction.  A page is [hostname, url, title, els].  The          *)
(* site-specific selector groups are the comma-separated strings handed to *)
(* one querySelector call; the generic lists are tried one selector at a   *)
(* time.                                                                   *)
(***************************************************************************)

LinkedInTitleSelectors ==
    << SelTagClass("h1", "job-title"),
       SelClass("job-details-jobs-unified-top-card__job-title"),
       SelTagAttr("h1", "data-test-id", "job-title") >>
IndeedTitleSelectors ==
    << SelTagAttr("h1", "data-testid", "job-title"),
       SelClass("jobsearch-JobInfoHeader-title") >>
GlassdoorTitleSelectors ==
    << SelClass("jobTitle"), SelClass("JobDetails_jobTitle__") >>
GenericTitleSelectors ==
    << SelTagClass("h1", "job-title"), SelTagClassSub("h1", "job-title"),
       SelTagClassSub("h1", "title"), SelInside("job-header", "h1"),
       SelClass("job-title"), SelTag("h1") >>

LinkedInCompanySelectors ==
    << SelClass("job-details-jobs-unified-top-card__company-name"),
       SelInside("job-details-jobs-unified-top-card__primary-description-without-tagline", "a") >>
IndeedCompanySelectors ==
    << SelAttr("data-testid", "company-name"),
       SelClass("jobsearch-CompanyInfoContainer") >>
GenericCompanySelectors ==
    << SelClass("company-name"), SelClass("job-company"),
       SelClassSub("company"), SelClass("employer"), SelClass("organization") >>

LinkedInLocationSelectors ==
    << SelClass("job-details-jobs-unified-top-card__bullet"),
       SelInside("job-details-jobs-unified-top-card__primary-description-without-tagline", "span") >>
IndeedLocationSelectors ==
    << SelAttr("data-testid", "job-location"),
       SelClass("jobsearch-JobInfoHeader-subtitle") >>
GenericLocationSelectors ==
    << SelClass("job-location"), SelClass("location"),
       SelClassSub("location"), SelClass("job-address") >>

LinkedInDescriptionSelectors ==
    << SelClass("jobs-description-content__text"),
       SelClass("jobs-box__html-content"),
       SelClass("jobs-description__content") >>
IndeedDescriptionSelectors ==
    << SelId("jobDescriptionText"), SelClass("jobsearch-jobDescriptionText") >>
GlassdoorDescriptionSelectors ==
    << SelClass("jobDescriptionContent"), SelClass("JobDetails_jobDescription__") >>
GenericDescriptionSelectors ==
    << SelClass("job-description"), SelClass("job-content"),
       SelClass("description"), SelClassSub("description"),
       SelClass("job-details"), SelClass("job-summary") >>

\* `const x = document.querySelector(group); return x ? x.textContent.trim() : null`
SiteText(p, group) ==
    LET e == QuerySelector(p.els, group)
    IN  IF e # 0 THEN Trim(p.els[e].text) ELSE Null

\* the same with cleanText in place of trim (description)
SiteCleanText(p, group) ==
    LET e == QuerySelector(p.els, group)
    IN  IF e # 0 THEN cleanText(p.els[e].text) ELSE Null

\* the generic loop of extractJobTitle (lines 136-143), from selector k on
RECURSIVE GenericTitleFrom(_, _)
GenericTitleFrom(p, k) ==
    IF k > Len(GenericTitleSelectors) THEN Null
    ELSE LET e == QuerySelector(p.els, << GenericTitleSelectors[k] >>)
         IN  IF e # 0 /\ isValidJobTitle(p.els[e].text)
             THEN Trim(p.els[e].text)
             ELSE GenericTitleFrom(p, k + 1)

\* the generic loop of extractCompany and extractLocation (lines 172-179,
\* 207-214), from selector k on
RECURSIVE GenericTextFrom(_, _, _)
GenericTextFrom(p, selectors, k) ==
    IF k > Len(selectors) THEN Null
    ELSE LET e == QuerySelector(p.els, << selectors[k] >>)
         IN  IF e # 0 /\ Len(Trim(p.els[e].text)) > 0
             THEN Trim(p.els[e].text)
             ELSE GenericTextFrom(p, selectors, k + 1)

\* the generic loop of extractJobDescription (lines 250-257), from selector
\* k on
RECURSIVE GenericDescriptionFrom(_, _)
GenericDescriptionFrom(p, k) ==
    IF k > Len(GenericDescriptionSelectors) THEN Null
    ELSE LET e == QuerySelector(p.els, << GenericDescriptionSelectors[k] >>)
         IN  IF e # 0 /\ Len(Trim(p.els[e].text)) > 100
             THEN cleanText(p.els[e].text)
             ELSE GenericDescriptionFrom(p, k + 1)

extractJobTitle(p) ==
    IF Includes(p.hostname, "linkedin.com")
    THEN SiteText(p, LinkedInTitleSelectors)
    ELSE IF Includes(p.hostname, "indeed.com")
    THEN SiteText(p, IndeedTitleSelectors)
    ELSE IF Includes(p.hostname, "glassdoor.com")
    THEN SiteText(p, GlassdoorTitleSelectors)
    ELSE GenericTitleFrom(p, 1)

extractCompany(p) ==
    IF Includes(p.hostname, "linkedin.com")
    THEN SiteText(p, LinkedInCompanySelectors)
    ELSE IF Includes(p.hostname, "indeed.com")
    THEN SiteText(p, IndeedCompanySelectors)
    ELSE GenericTextFrom(p, GenericCompanySelectors, 1)

extractLocation(p) ==
    IF Includes(p.hostname, "linkedin.com")
    THEN SiteText(p, LinkedInLocationSelectors)
    ELSE IF Includes(p.hostname, "indeed.com")
    THEN SiteText(p, IndeedLocationSelectors)
    ELSE GenericTextFrom(p, GenericLocationSelectors, 1)

extractJobDescription(p) ==
    IF Includes(p.hostname, "linkedin.com")
    THEN SiteCleanText(p, LinkedInDescriptionSelectors)
    ELSE IF Includes(p.hostname, "indeed.com")
    THEN SiteCleanText(p, IndeedDescriptionSelectors)
    ELSE IF Includes(p.hostname, "glassdoor.com")
    THEN SiteCleanText(p, GlassdoorDescriptionSelectors)
    ELSE GenericDescriptionFrom(p, 1)

(***************************************************************************)
(* Requirements: four regular expressions                                  *)
(*     /HEAD[:\s]+(.*?)(?=\n\n|\n[A-Z]|$)/gi                               *)
(* matched as the regular-expression engine matches them.                  *)
(***************************************************************************)

\* the patterns with the first two exchanged
requirementPatterns_QualificationsFirst ==
    << [head |-> "qualification", plural |-> TRUE],
       [head |-> "requirement", plural |-> TRUE],
       [head |-> "must have", plural |-> FALSE],
       [head |-> "required", plural |-> FALSE] >>

\* the heading of each pattern and whether an optional "s" follows it
requirementPatterns ==
    << [head |-> "requirement", plural |-> TRUE],
       [head |-> "qualification", plural |-> TRUE],
       [head |-> "must have", plural |-> FALSE],
       [head |-> "required", plural |-> FALSE] >>

\* [:\s]
IsSeparator(c) == c = ":" \/ c \in WhiteSpace

\* the position after the heading `pat` read at position i of s (the flag i
\* makes the comparison case-insensitive, "s?" is greedy); 0 when s does not
\* read the heading there
HeadEnd(s, i, pat) ==
    LET n == Len(pat.head)
    IN  IF \/ i + n - 1 > Len(s)
           \/ LowerChar(CharAt(s, i)) # CharAt(pat.head, 1)
           \/ ToLowerCase(SubSeq(s, i, i + n - 1)) # pat.head
        THEN 0
        ELSE IF pat.plural /\ i + n <= Len(s) /\ LowerChar(CharAt(s, i + n)) = "s"
             THEN i + n + 1
             ELSE i + n

\* the number of [:\s] characters of s from position p on
RECURSIVE SeparatorRun(_, _)
SeparatorRun(s, p) ==
    IF p <= Len(s) /\ IsSeparator(CharAt(s, p)) THEN 1 + SeparatorRun(s, p + 1)
    ELSE 0

\* the lookahead (?=\n\n|\n[A-Z]|$) at position j (no flag m: $ is the end of
\* the input; the flag i lets [A-Z] match any letter)
Lookahead(s, j) ==
    \/ j > Len(s)
    \/ /\ j < Len(s)
       /\ CharAt(s, j) = "\n"
       /\ CharAt(s, j + 1) = "\n" \/ IsLetter(CharAt(s, j + 1))

\* (.*?) from position start: the first position where the lookahead holds,
\* reached without crossing a newline; 0 when a newline stops the capture
CaptureEnd(s, start) ==
    LET ends == {j \in start..(Len(s) + 1) :
                    /\ Lookahead(s, j)
                    /\ \A k \in start..(j - 1) : CharAt(s, k) # "\n"}
    IN  IF ends = {} THEN 0 ELSE CHOOSE j \in ends : \A k \in ends : j <= k

\* the position after the match of pattern pat that starts at position i;
\* 0 when there is no match starting there.  [:\s]+ is greedy and gives
\* characters back while the rest of the pattern fails
MatchEnd(s, i, pat) ==
    LET p == HeadEnd(s, i, pat)
        n == IF p = 0 THEN 0 ELSE SeparatorRun(s, p)
        ok == {k \in 1..n : CaptureEnd(s, p + k) # 0}
    IN  IF ok = {} THEN 0
        ELSE CaptureEnd(s, p + CHOOSE k \in ok : \A m \in ok : m <= k)

\* description.match(pattern) with the flag g: the matches from left to
\* right, each search resuming where the previous match ended
RECURSIVE MatchAllFrom(_, _, _)
MatchAllFrom(s, i, pat) ==
    LET starts == {j \in i..Len(s) : MatchEnd(s, j, pat) # 0}
    IN  IF starts = {} THEN << >>
        ELSE LET first == CHOOSE j \in starts : \A k \in starts : j <= k
                 e == MatchEnd(s, first, pat)
             IN  << SubSeq(s, first, e - 1) >> \o MatchAllFrom(s, e, pat)

\* match.replace(/^(requirements?|qualifications?|must have|required)[:\s]+/i, '')
\* from alternative k on: the first alternative that reads at position 1 and
\* is followed by a separator is removed together with all its separators
RECURSIVE StripHeadingFrom(_, _)
StripHeadingFrom(m, k) ==
    IF k > Len(requirementPatterns) THEN m
    ELSE LET p == HeadEnd(m, 1, requirementPatterns[k])
             n == IF p = 0 THEN 0 ELSE SeparatorRun(m, p)
         IN  IF n > 0 THEN SubSeq(m, p + n, Len(m))
             ELSE StripHeadingFrom(m, k + 1)

\* lines 276-281 from pattern k on: the matches of each pattern, heading
\* stripped and trimmed, pattern after pattern
RECURSIVE RequirementsFrom(_, _)
RequirementsFrom(description, k) ==
    IF k > Len(requirementPatterns) THEN << >>
    ELSE LET matches == MatchAllFrom(description, 1, requirementPatterns[k])
         IN  [n \in 1..Len(matches) |-> Trim(StripHeadingFrom(matches[n], 1))]
             \o RequirementsFrom(description, k + 1)

extractRequirements(p) ==
    LET description == extractJobDescription(p)
    IN  IF ~Truthy(description) THEN << >>
        ELSE RequirementsFrom(description, 1)

(***************************************************************************)
(* Skills                                                                  *)
(***************************************************************************)

commonSkills ==
    << "JavaScript", "Python", "Java", "C++", "C#", "React", "Angular", "Vue",
       "Node.js", "Express", "Django", "Flask", "Spring", "SQL", "MongoDB",
       "PostgreSQL", "MySQL", "AWS", "Azure", "Docker", "Kubernetes", "Git",
       "Agile", "Scrum", "Machine Learning", "AI", "Data Science", "Analytics",
       "Project Management", "Leadership", "Communication", "Problem Solving" >>

\* lines 305-309 with skill.toLowerCase() forgotten
RECURSIVE SkillsFrom_CaseSensitive(_, _)
SkillsFrom_CaseSensitive(lowerDescription, k) ==
    IF k > Len(commonSkills) THEN << >>
    ELSE IF Includes(lowerDescription, commonSkills[k])
         THEN << commonSkills[k] >> \o SkillsFrom_CaseSensitive(lowerDescription, k + 1)
         ELSE SkillsFrom_CaseSensitive(lowerDescription, k + 1)

\* lines 305-309 from skill k on
RECURSIVE SkillsFrom(_, _)
SkillsFrom(lowerDescription, k) ==
    IF k > Len(commonSkills) THEN << >>
    ELSE IF Includes(lowerDescription, ToLowerCase(commonSkills[k]))
         THEN << commonSkills[k] >> \o SkillsFrom(lowerDescription, k + 1)
         ELSE SkillsFrom(lowerDescription, k + 1)

\* extractSkills() reading the first element any generic description selector
\* matches instead of calling extractJobDescription()
extractSkills_FirstCandidate(p) ==
    LET e == QuerySelector(p.els, GenericDescriptionSelectors)
        description == IF e # 0 THEN cleanText(p.els[e].text) ELSE Null
    IN  IF ~Truthy(description) THEN << >>
        ELSE SkillsFrom(ToLowerCase(description), 1)

extractSkills(p) ==
    LET description == extractJobDescription(p)
    IN  IF ~Truthy(description) THEN << >>
        ELSE SkillsFrom(ToLowerCase(description), 1)

(***************************************************************************)
(* The pages of the model                                                  *)
(***************************************************************************)

\* 116 characters, above the floor of 100 of the generic description tier
LongDescription ==
    "We build tools for teams. Requirements: 5 years experience with Python and AWS. Qualifications: BS in CS or similar."

\* 131 characters with "Qualifications:" ahead of "Requirements:"
LongDescriptionQualificationsFirst ==
    "You will ship software every week with us. Qualifications: BS in CS. Requirements: 5 years experience with React and Docker. Thanks"

\* 108 characters before normalisation, 9 after it
PaddedDescription == "Apply" \o Repeat(" ", 100) \o "now"

PlainHeading == El("h1", "", "Senior Engineer")
NavigationHeading == El("h1", "", "Careers at Acme")
ClassedHeading == El("h1", "job-title", "Staff Engineer")
TopCardTitle ==
    El("div", "job-details-jobs-unified-top-card__job-title", "Data Analyst")
IndeedTitle ==
    [El("h1", "", "Senior Engineer") EXCEPT !.attr = "data-testid", !.val = "job-title"]
GlassdoorTitle == El("div", "jobTitle", "QA Lead")

GenericLong == El("div", "job-description", LongDescription)
GenericShort == El("div", "job-description", "Short text.")
GenericSecond == El("div", "job-content", LongDescriptionQualificationsFirst)
GenericPadded == El("section", "job-content", PaddedDescription)
LinkedInDescription ==
    El("div", "jobs-box__html-content", "Build  things.\nMust have: Git")
IndeedDescription ==
    [El("div", "", LongDescription) EXCEPT !.id = "jobDescriptionText"]
IndeedBlankDescription ==
    [El("div", "", " \n ") EXCEPT !.id = "jobDescriptionText"]
GlassdoorDescription == El("div", "jobDescriptionContent", "Test our apps.")

GenericCompany == El("span", "company-name", " Acme Corp ")
GenericLocation == El("span", "job-location", "Berlin")
IndeedCompany ==
    [El("div", "", "Initech") EXCEPT !.attr = "data-testid", !.val = "company-name"]
IndeedLocation ==
    [El("div", "", "Austin") EXCEPT !.attr = "data-testid", !.val = "job-location"]

\* window.location and document.title
LinkedIn ==
    [hostname |-> "www.linkedin.com", url |-> "https://www.linkedin.com/view/1",
     title |-> "LinkedIn"]
Indeed ==
    [hostname |-> "www.indeed.com", url |-> "https://www.indeed.com/view?jk=1",
     title |-> "Indeed"]
Glassdoor ==
    [hostname |-> "www.glassdoor.com", url |-> "https://www.glassdoor.com/Listing",
     title |-> "Glassdoor"]
AcmeAbout ==
    [hostname |-> "acme.org", url |-> "https://acme.org/about-us", title |-> "Acme"]
AcmeOpenings ==
    [hostname |-> "acme.org", url |-> "https://acme.org/Openings/42", title |-> "Acme"]
AcmeTeam ==
    [hostname |-> "acme.org", url |-> "https://acme.org/team", title |-> "Now HIRING"]

\* the page at location l showing the elements els in document order
Page(l, els) ==
    [hostname |-> l.hostname, url |-> l.url, title |-> l.title, els |-> els]

Pages ==
    { Page(LinkedIn, << PlainHeading, GenericLong >>),
      Page(LinkedIn, << TopCardTitle, ClassedHeading, LinkedInDescription, GenericCompany >>),
      Page(LinkedIn, << ClassedHeading, TopCardTitle, LinkedInDescription >>),
      Page(Indeed, << IndeedTitle, IndeedCompany, IndeedLocation, IndeedDescription >>),
      Page(Indeed, << IndeedTitle, IndeedBlankDescription >>),
      Page(Indeed, << PlainHeading, GenericLocation, GenericLong >>),
      Page(Glassdoor, << GlassdoorTitle, GlassdoorDescription, GenericCompany >>),
      Page(Glassdoor, << >>),
      Page(AcmeAbout, << PlainHeading, GenericLong >>),
      Page(AcmeAbout, << NavigationHeading, GenericLong >>),
      Page(AcmeTeam, << PlainHeading, GenericLong >>),
      Page(AcmeOpenings, << PlainHeading, GenericCompany, GenericLocation, GenericLong >>),
      Page(AcmeOpenings, << PlainHeading, GenericPadded >>),
      Page(AcmeOpenings, << PlainHeading, GenericShort, GenericSecond >>),
      Page(AcmeOpenings, << PlainHeading, GenericShort >>) }

(***************************************************************************)
(* The content script as a state machine.  One JobDescriptionExtractor     *)
(* lives in one document: a full page load starts a new behaviour at Init, *)
(* single-page navigation is a Mutation.                                   *)
(***************************************************************************)

VARIABLES
    page,        \* window.location, document.title and the DOM
    isJobPage,   \* this.isJobPage
    jobData,     \* this.jobData
    records,     \* MutationRecords queued for the observer callback
    timers,      \* pending setTimeout timers: the milliseconds left of each
    notified,    \* the jobDetected messages sent by the step just taken
    delivery,    \* what became of the latest jobDetected message sent
    response,    \* the sendResponse argument of the step just taken
    lastOp,      \* the step just taken
    arg,         \* the argument of the function under test
    ret          \* the value it returned

vars ==
    << page, isJobPage, jobData, records, timers, notified, delivery, response,
       lastOp, arg, ret >>

\* The background service worker (background.js) is a second program; the
\* content script reads and writes none of its state.
VARIABLES
    settings,    \* this.settings
    apiKey,      \* this.apiKey
    userProfile, \* this.userProfile
    storage,     \* the `settings` item of chrome.storage.local
    requests,    \* the messages received so far: action, argument, position
    fetches,     \* per request, the calls of the chat-completion endpoint
    responses    \* per request, the arguments of its sendResponse calls

backgroundVars ==
    << settings, apiKey, userProfile, storage, requests, fetches, responses >>

\* the side panel (README.md, from line 293) and the Logger (utils/logger.js)
VARIABLES
    sidebar,     \* the fields of ResumeAIProSidebar and the work it awaits
    logger       \* this.logs of a Logger, the stored errors, its storeError calls

panelVars == << sidebar, logger >>

allVars == << vars, backgroundVars, panelVars >>

\* no side panel and no logger in the picture
NoPanel ==
    /\ sidebar = [isNull |-> TRUE]
    /\ logger = [isNull |-> TRUE]

NoSettings == [isNull |-> TRUE]

\* no background service worker in the picture
NoBackground ==
    /\ settings = NoSettings
    /\ apiKey = Null
    /\ userProfile = Null
    /\ storage = NoSettings
    /\ requests = << >>
    /\ fetches = << >>
    /\ responses = << >>

\* the delay of setTimeout in observePageChanges
DebounceMs == 1000

\* clock ticks per debounce delay
TicksPerDelay == 2
\* pending timers
MaxTimers == 2
\* MutationRecords queued for one callback
MaxRecords == 2

TickMs == DebounceMs \div TicksPerDelay

\* chrome.runtime.sendMessage without a callback: the message reaches the
\* background or the promise it returns rejects (no receiving end); the
\* content script looks at neither
Outcome(messages, before) ==
    IF messages = << >> THEN {before} ELSE {"delivered", "failed"}

NoResponse == [isNull |-> TRUE]
NoValue == [isNull |-> TRUE]

\* extractJobData(): the posting it builds and what it leaves in
\* << this.jobData, messages sent >>
BuildJobData(p) ==
    [title |-> extractJobTitle(p),
     company |-> extractCompany(p),
     location |-> extractLocation(p),
     description |-> extractJobDescription(p),
     requirements |-> extractRequirements(p),
     skills |-> extractSkills(p),
     url |-> p.url]

\* notifyBackground(jobData): the message handed to chrome.runtime.sendMessage
notifyBackground(data) == [action |-> "jobDetected", jobData |-> data]

\* lines 97-100 with the description test forgotten
StoreAndNotify_TitleOnly(data, old) ==
    IF Truthy(data.title)
    THEN << data, << notifyBackground(data) >> >>
    ELSE << old, << >> >>

\* lines 97-100 on the posting `data` just built
StoreAndNotify(data, old) ==
    IF Truthy(data.title) /\ Truthy(data.description)
    THEN << data, << notifyBackground(data) >> >>
    ELSE << old, << >> >>

\* the posting extractJobData builds and the value detectJobPage gives
\* isJobPage, tabulated over the pages of the model
PostingOf == [p \in Pages |-> BuildJobData(p)]
IsJobPageOf == [p \in Pages |-> Classify(p)]

extractJobData(p, old) == StoreAndNotify(PostingOf[p], old)

\* detectJobPage(): the new << isJobPage, jobData, messages sent >>
detectJobPage(p, old) ==
    IF IsJobPageOf[p] THEN << TRUE >> \o extractJobData(p, old)
    ELSE << FALSE, old, << >> >>

\* new JobDescriptionExtractor(): jobData = null, isJobPage = false, then
\* init() runs detectJobPage and installs the listener and the observer
Construct(p) ==
    /\ page = p
    /\ \E r \in {detectJobPage(p, NoJob)} :
        /\ isJobPage = r[1]
        /\ jobData = r[2]
        /\ notified = r[3]
        /\ delivery \in Outcome(r[3], "none")
    /\ records = << >>
    /\ timers = << >>
    /\ response = NoResponse
    /\ lastOp = "load"

Init ==
    /\ \E p \in Pages : Construct(p)
    /\ arg = NoValue
    /\ ret = NoValue
    /\ NoBackground
    /\ NoPanel

\* the page changes under the script: single-page navigation or dynamic
\* content replaces the document (and possibly the path and the title) and
\* queues a childList record with `added` added nodes
Mutation ==
    /\ Len(records) < MaxRecords
    /\ \E p \in Pages, added \in 0..1 :
        /\ added > 0 => Len(timers) < MaxTimers
        /\ p.hostname = page.hostname
        /\ p # page
        /\ page' = p
        /\ records' = Append(records, [type |-> "childList", addedNodes |-> added])
    /\ notified' = << >>
    /\ response' = NoResponse
    /\ lastOp' = "mutation"
    /\ UNCHANGED << isJobPage, jobData, timers, arg, ret, delivery, backgroundVars, panelVars >>

\* the MutationObserver callback with setTimeout inside the forEach: one
\* timer for every record that added nodes
ObserverCallback_TimerPerRecord ==
    /\ records # << >>
    /\ LET qualifying == {i \in 1..Len(records) : records[i].addedNodes > 0}
       IN  /\ Len(timers) + Cardinality(qualifying) <= MaxTimers
           /\ timers' = timers \o [i \in 1..Cardinality(qualifying) |-> DebounceMs]
    /\ records' = << >>
    /\ notified' = << >>
    /\ response' = NoResponse
    /\ lastOp' = "callback"
    /\ UNCHANGED << page, isJobPage, jobData, arg, ret, delivery, backgroundVars, panelVars >>

\* the MutationObserver callback as a debounce: clearTimeout on the pending
\* timers, then one new timer
ObserverCallback_Debounced ==
    /\ records # << >>
    /\ LET shouldRecheck ==
               \E i \in 1..Len(records) :
                   records[i].type = "childList" /\ records[i].addedNodes > 0
       IN  timers' = IF shouldRecheck THEN << DebounceMs >> ELSE timers
    /\ records' = << >>
    /\ notified' = << >>
    /\ response' = NoResponse
    /\ lastOp' = "callback"
    /\ UNCHANGED << page, isJobPage, jobData, arg, ret, delivery, backgroundVars, panelVars >>

\* the MutationObserver callback (lines 350-364) on the queued records
ObserverCallback ==
    /\ records # << >>
    /\ LET shouldRecheck ==
               \E i \in 1..Len(records) :
                   records[i].type = "childList" /\ records[i].addedNodes > 0
       IN  IF shouldRecheck
           THEN /\ Len(timers) < MaxTimers
                /\ timers' = Append(timers, DebounceMs)
           ELSE timers' = timers
    /\ records' = << >>
    /\ notified' = << >>
    /\ response' = NoResponse
    /\ lastOp' = "callback"
    /\ UNCHANGED << page, isJobPage, jobData, arg, ret, delivery, backgroundVars, panelVars >>

\* time passes while no timer is due and no callback is queued
Tick ==
    /\ records = << >>
    /\ timers # << >>
    /\ \A i \in 1..Len(timers) : timers[i] > 0
    /\ timers' = [i \in 1..Len(timers) |-> timers[i] - TickMs]
    /\ notified' = << >>
    /\ response' = NoResponse
    /\ lastOp' = "tick"
    /\ UNCHANGED << page, isJobPage, jobData, records, arg, ret, delivery, backgroundVars, panelVars >>

\* the timer callback sending the kept posting once more when its delivery
\* failed and the pass has nothing new to send
TimerFire_ResendsFailed ==
    /\ records = << >>
    /\ timers # << >>
    /\ Head(timers) <= 0
    /\ \E r \in {detectJobPage(page, jobData)} :
        /\ isJobPage' = r[1]
        /\ jobData' = r[2]
        /\ notified' = IF r[3] = << >> /\ delivery = "failed"
                       THEN << notifyBackground(jobData) >> ELSE r[3]
        /\ delivery' \in Outcome(notified', delivery)
    /\ timers' = Tail(timers)
    /\ response' = NoResponse
    /\ lastOp' = "rescan"
    /\ UNCHANGED << page, records, arg, ret, backgroundVars, panelVars >>

\* the timer callback (lines 360-362): the rescan
TimerFire ==
    /\ records = << >>
    /\ timers # << >>
    /\ Head(timers) <= 0
    /\ \E r \in {detectJobPage(page, jobData)} :
        /\ isJobPage' = r[1]
        /\ jobData' = r[2]
        /\ notified' = r[3]
        /\ delivery' \in Outcome(r[3], delivery)
    /\ timers' = Tail(timers)
    /\ response' = NoResponse
    /\ lastOp' = "rescan"
    /\ UNCHANGED << page, records, arg, ret, backgroundVars, panelVars >>

\* the onMessage listener running detectJobPage before it answers
GetJobData_Rescans ==
    /\ records = << >>
    /\ \E r \in {detectJobPage(page, jobData)} :
        /\ isJobPage' = r[1]
        /\ jobData' = r[2]
        /\ notified' = r[3]
        /\ delivery' \in Outcome(r[3], delivery)
        /\ response' = [isJobPage |-> r[1], jobData |-> r[2]]
    /\ lastOp' = "getJobData"
    /\ UNCHANGED << page, records, timers, arg, ret, backgroundVars, panelVars >>

\* the onMessage listener (lines 377-384) on a getJobData request
GetJobData ==
    /\ records = << >>
    /\ response' = [isJobPage |-> isJobPage, jobData |-> jobData]
    /\ notified' = << >>
    /\ lastOp' = "getJobData"
    /\ UNCHANGED << page, isJobPage, jobData, records, timers, arg, ret, delivery, backgroundVars, panelVars >>

Next == Mutation \/ ObserverCallback \/ Tick \/ TimerFire \/ GetJobData

Spec == Init /\ [][Next]_allVars

\* the event loop of the page: a queued observer callback is delivered, time
\* passes and a due timer runs its callback, however often the page mutates
FairSpec ==
    /\ Spec
    /\ WF_allVars(ObserverCallback)
    /\ SF_allVars(Tick)
    /\ SF_allVars(TimerFire)

(***************************************************************************)
(* Properties of the content script                                        *)
(***************************************************************************)

\* C1: a posting is kept as jobData and sent as jobDetected only with a
\* non-null, non-empty title and description; a pass that finds no
\* description sends nothing
C1_OnlyValidPostingsEmitted ==
    /\ jobData # NoJob =>
        /\ jobData.title \notin {Null, ""}
        /\ jobData.description \notin {Null, ""}
    /\ \A i \in 1..Len(notified) :
        /\ notified[i].action = "jobDetected"
        /\ notified[i].jobData.title \notin {Null, ""}
        /\ notified[i].jobData.description \notin {Null, ""}
    /\ (lastOp \in {"load", "rescan"}
            /\ extractJobDescription(page) \in {Null, ""}) => notified = << >>

\* C1 witness: a pass on a job page found a title and no description and
\* neither stored nor sent anything
C1_Witness ==
    /\ lastOp \in {"load", "rescan"}
    /\ isJobPage
    /\ extractJobTitle(page) \notin {Null, ""}
    /\ extractJobDescription(page) = ""
    /\ jobData = NoJob
    /\ notified = << >>

\* C2 as claimed: on a host with a site-specific rule none of whose
\* selectors resolves, every field is the accepted generic match
C2_FallsThroughToGeneric ==
    lastOp \in {"load", "rescan"} =>
        LET host == page.hostname
            linkedin == Includes(host, "linkedin.com")
            indeed == ~linkedin /\ Includes(host, "indeed.com")
            glassdoor == ~linkedin /\ ~indeed /\ Includes(host, "glassdoor.com")
            misses(group) == QuerySelector(page.els, group) = 0
        IN  /\ (\/ linkedin /\ misses(LinkedInTitleSelectors)
                \/ indeed /\ misses(IndeedTitleSelectors)
                \/ glassdoor /\ misses(GlassdoorTitleSelectors))
                => extractJobTitle(page) = GenericTitleFrom(page, 1)
            /\ (\/ linkedin /\ misses(LinkedInCompanySelectors)
                \/ indeed /\ misses(IndeedCompanySelectors))
                => extractCompany(page) = GenericTextFrom(page, GenericCompanySelectors, 1)
            /\ (\/ linkedin /\ misses(LinkedInLocationSelectors)
                \/ indeed /\ misses(IndeedLocationSelectors))
                => extractLocation(page) = GenericTextFrom(page, GenericLocationSelectors, 1)
            /\ (\/ linkedin /\ misses(LinkedInDescriptionSelectors)
                \/ indeed /\ misses(IndeedDescriptionSelectors)
                \/ glassdoor /\ misses(GlassdoorDescriptionSelectors))
                => extractJobDescription(page) = GenericDescriptionFrom(page, 1)

\* C3 as claimed: a description taken from the generic tier (a host without
\* a site-specific rule) is never shorter than 100 characters
C3_GenericDescriptionFloor ==
    (/\ jobData # NoJob
     /\ ~Includes(page.hostname, "linkedin.com")
     /\ ~Includes(page.hostname, "indeed.com")
     /\ ~Includes(page.hostname, "glassdoor.com"))
        => Len(jobData.description) >= 100

\* C4: a classification pass leaves isJobPage true exactly when the hostname
\* contains one of the nine job-board domains or one of the nine keywords
\* occurs in the lower-cased URL, title or body text
C4_ClassificationExact ==
    lastOp \in {"load", "rescan"} =>
        (isJobPage <=>
            \/ \E board \in {"linkedin.com", "indeed.com", "glassdoor.com",
                            "monster.com", "ziprecruiter.com", "careerbuilder.com",
                            "dice.com", "angel.co", "wellfound.com"} :
                   Includes(page.hostname, board)
            \/ \E keyword \in {"job", "career", "position", "opening", "opportunity",
                              "employment", "hiring", "recruitment", "vacancy"} :
                   \E text \in {page.url, page.title, BodyText(page.els)} :
                       Includes(ToLowerCase(text), keyword))

\* C4 witness: a pass on a page off the job boards whose only keyword is
\* the upper-case "HIRING" of its title
C4_Witness ==
    /\ lastOp = "rescan"
    /\ isJobPage
    /\ page.hostname = "acme.org"
    /\ page.title = "Now HIRING"
    /\ ~Includes(page.title, "hiring")

\* C5 as claimed: the qualifying mutations of one debounce window lead to
\* one rescan, so no two pending rescans lie less than the delay apart
C5_OneRescanPerWindow ==
    \A i, j \in 1..Len(timers) :
        i < j => timers[j] - timers[i] >= DebounceMs

\* C5 amended: one observer callback schedules exactly one rescan when at
\* least one of its records added nodes, however many did, and none
\* otherwise; each timer that fires is one rescan
C5_OneRescanPerCallback ==
    [][ /\ lastOp' = "callback" =>
            LET qualifying == {i \in 1..Len(records) : records[i].addedNodes > 0}
            IN  timers' = IF qualifying # {} THEN timers \o << DebounceMs >>
                          ELSE timers
        /\ lastOp' = "rescan" => Len(timers') = Len(timers) - 1
        /\ lastOp' \in {"mutation", "getJobData"} => timers' = timers ]_vars

\* C5 witness: a second callback inside the window of the first has
\* scheduled a second rescan
C5_Witness ==
    /\ lastOp = "callback"
    /\ Len(timers) = 2
    /\ timers[1] > 0
    /\ timers[2] - timers[1] < DebounceMs

\* C6: a getJobData request is answered with the in-memory pair and changes
\* neither isJobPage nor jobData, sends nothing and schedules nothing
C6_GetJobDataReadsMemory ==
    [][ lastOp' = "getJobData" =>
            /\ response' = [isJobPage |-> isJobPage, jobData |-> jobData]
            /\ isJobPage' = isJobPage
            /\ jobData' = jobData
            /\ notified' = << >>
            /\ timers' = timers ]_vars

\* C6 witness: the answer is the posting of an earlier pass although the
\* page now shows another address
C6_Witness ==
    /\ lastOp = "getJobData"
    /\ response.isJobPage
    /\ response.jobData # NoJob
    /\ response.jobData.url # page.url

\* C7 as claimed: within a site-specific rule the element of the first
\* listed selector that resolves gives the title and the description
C7_ListedOrderWins ==
    lastOp \in {"load", "rescan"} =>
        LET host == page.hostname
            linkedin == Includes(host, "linkedin.com")
            indeed == ~linkedin /\ Includes(host, "indeed.com")
            glassdoor == ~linkedin /\ ~indeed /\ Includes(host, "glassdoor.com")
            resolving(group) ==
                {k \in 1..Len(group) : QuerySelector(page.els, << group[k] >>) # 0}
            firstListed(group) ==
                page.els[QuerySelector(page.els,
                    << group[CHOOSE k \in resolving(group) :
                                 \A m \in resolving(group) : k <= m] >>)]
            titles == IF linkedin THEN LinkedInTitleSelectors
                      ELSE IF indeed THEN IndeedTitleSelectors
                      ELSE GlassdoorTitleSelectors
            descriptions == IF linkedin THEN LinkedInDescriptionSelectors
                            ELSE IF indeed THEN IndeedDescriptionSelectors
                            ELSE GlassdoorDescriptionSelectors
        IN  (linkedin \/ indeed \/ glassdoor) =>
                /\ resolving(titles) # {} =>
                       extractJobTitle(page) = Trim(firstListed(titles).text)
                /\ resolving(descriptions) # {} =>
                       extractJobDescription(page) = cleanText(firstListed(descriptions).text)

\* C12: the requirements and the skills of a posting are the ones its own
\* description gives, after every pass (only a pass writes jobData): in the
\* posting kept as jobData, in every posting sent and in the posting the
\* pass built, kept or not; they are empty when that description is null or
\* empty
C12_DerivedFromDescription ==
    LET derived(data) ==
            IF data.description \in {Null, ""}
            THEN data.requirements = << >> /\ data.skills = << >>
            ELSE /\ data.requirements = RequirementsFrom(data.description, 1)
                 /\ data.skills = SkillsFrom(ToLowerCase(data.description), 1)
    IN  lastOp \in {"load", "rescan"} =>
            /\ jobData # NoJob => derived(jobData)
            /\ \A i \in 1..Len(notified) : derived(notified[i].jobData)
            /\ isJobPage => derived(PostingOf[page])

\* C12 witness: a rescan found the description in the second generic
\* candidate, the first being too short, and kept a posting with the
\* requirements and the skills of that description
C12_Witness ==
    /\ lastOp = "rescan"
    /\ jobData # NoJob
    /\ jobData.url = page.url
    /\ jobData.description = LongDescriptionQualificationsFirst
    /\ jobData.skills = << "React", "Docker" >>
    /\ Len(jobData.requirements) = 2

\* C13: a message is sent by an extraction pass only, at most one a pass,
\* and it is the posting this pass built from the page as it stands: no
\* step sends a posting of an earlier pass again, also after its delivery
\* failed; a failed delivery schedules nothing
C13_AtMostOnceNoRetry ==
    /\ Len(notified) <= 1
    /\ [][ /\ Len(notified') <= 1
           /\ notified' # << >> =>
                  /\ lastOp' = "rescan"
                  /\ notified' = << notifyBackground(PostingOf[page']) >>
           /\ lastOp' = "rescan" => timers' = Tail(timers) ]_vars

\* C13 witness: the delivery of the latest message failed, the page has
\* changed since, and the next pass, finding no posting, sent nothing
C13_Witness ==
    /\ lastOp = "rescan"
    /\ delivery = "failed"
    /\ notified = << >>
    /\ jobData # NoJob
    /\ jobData.url # page.url

\* C14: a scheduled rescan is neither cancelled nor put off: a pending
\* timer leaves the queue only by firing, and the step that takes it out
\* runs detectJobPage on the page as it then stands; until then it only
\* comes closer; and while a timer is pending a rescan is always still to
\* come, whatever mutations and navigations come in between, so that every
\* timer of the first-in first-out queue is reached and fires
C14_ScheduledRescanRuns ==
    /\ [][ /\ lastOp' = "rescan" =>
                  /\ timers' = Tail(timers)
                  /\ isJobPage' = IsJobPageOf[page']
           /\ lastOp' # "rescan" =>
                  \A i \in 1..Len(timers) :
                      Len(timers') >= i /\ timers'[i] <= timers[i] ]_vars
    /\ (timers # << >> /\ lastOp # "rescan") ~> (lastOp = "rescan")
    /\ (timers # << >> /\ lastOp = "rescan") ~> (lastOp # "rescan" \/ timers = << >>)

\* C14 witness: a rescan has run on a page other than the one it was
\* scheduled on while a second rescan, scheduled in between, is pending
C14_Witness ==
    /\ lastOp = "rescan"
    /\ Len(timers) = 1
    /\ timers[1] > 0
    /\ jobData # NoJob
    /\ jobData.url # page.url
    /\ ~isJobPage

\* C20 as claimed: the pair answered to getJobData is consistent with the
\* most recent pass: with isJobPage false jobData is null, and right after a
\* pass a jobData that is not null is the posting this pass has built
C20_ConsistentWithLatestPass ==
    /\ lastOp = "getJobData" =>
        (~response.isJobPage => response.jobData = NoJob)
    /\ lastOp \in {"load", "rescan"} =>
        /\ ~isJobPage => jobData = NoJob
        /\ jobData # NoJob => jobData = PostingOf[page]

\* C20: a getJobData request is answered isJobPage false together with the
\* posting of an earlier pass, whose url is not the page's any more
C20_StalePostingAnswered ==
    /\ lastOp = "getJobData"
    /\ ~response.isJobPage
    /\ response.jobData # NoJob
    /\ response.jobData.url # page.url

(***************************************************************************)
(* The pure functions on their own: a function is applied once to an input *)
(* drawn from a bounded set, the content script itself stays idle.         *)
(***************************************************************************)

\* the extractor before any of its methods has run
Idle ==
    /\ isJobPage = FALSE
    /\ jobData = NoJob
    /\ records = << >>
    /\ timers = << >>
    /\ notified = << >>
    /\ delivery = "none"
    /\ response = NoResponse
    /\ lastOp = "init"
    /\ ret = NoValue
    /\ NoBackground
    /\ NoPanel

\* texts of generic title candidates: block-list words in several spellings,
\* near misses and short texts, alone and inside longer titles
TitleWords ==
    { "", "a", "ab", "abc", "QA", "Dev", "home", "Home", "ABOUT", "abou",
      "Contact", "login", "Log in", "Sign Up", "sign  up", "search", "JOBS",
      "job", "careers", "career", "Company", "team", "tea", "News", "new",
      "blog", "Engineer" }

TitleInputs ==
    {Null} \cup
    {before \o word \o after :
        before \in {"", "x", "Senior "}, word \in TitleWords, after \in {"", "s"}}

InitTitle ==
    /\ page = Page(AcmeAbout, << >>)
    /\ arg \in TitleInputs
    /\ Idle

\* isValidJobTitle(arg)
CallIsValidJobTitle ==
    /\ lastOp = "init"
    /\ ret' = isValidJobTitle(arg)
    /\ lastOp' = "isValidJobTitle"
    /\ UNCHANGED << page, isJobPage, jobData, records, timers, notified, response, arg, delivery, backgroundVars, panelVars >>

SpecTitle == InitTitle /\ [][CallIsValidJobTitle]_allVars

\* C8: isValidJobTitle rejects a title exactly when it is null, empty or
\* shorter than 3 characters or its lower-cased text contains one of the
\* twelve block-list words
C8_TitleRejectedExactly ==
    lastOp = "isValidJobTitle" =>
        (ret = FALSE <=>
            \/ arg = Null
            \/ Len(arg) < 3
            \/ \E word \in {"home", "about", "contact", "login", "sign up", "search",
                           "jobs", "careers", "company", "team", "news", "blog"} :
                   Includes(ToLowerCase(arg), word))

\* C8 witness: a title of three or more characters rejected for a block-list
\* word spelled in capitals
C8_Witness ==
    /\ lastOp = "isValidJobTitle"
    /\ ret = FALSE
    /\ arg = "Senior JOBS"

\* descriptions with a "Requirements:" and a "Qualifications:" block in
\* either order, behind an optional introduction, joined by blanks or line
\* breaks, with and without a further "Must have:" block
RequirementDescriptions ==
    {intro \o first \o join \o second \o tail :
        intro \in {"", "About the role. "},
        join \in {" ", "\n", "\n\n", ". "},
        tail \in {"", " Must have: Git"},
        first \in {"Requirements: 5 years experience", "REQUIREMENTS:\n5 years experience",
                   "Qualifications: BS in CS", "qualifications:  BS in CS"},
        second \in {"Requirements: 5 years experience", "REQUIREMENTS:\n5 years experience",
                    "Qualifications: BS in CS", "qualifications:  BS in CS"}}

\* the Indeed page whose description element holds the text d
DescriptionPage(d) ==
    Page(Indeed, << IndeedTitle, [IndeedDescription EXCEPT !.text = d] >>)

InitRequirements ==
    /\ \E d \in RequirementDescriptions : page = DescriptionPage(d)
    /\ arg = NoValue
    /\ Idle

\* extractRequirements() on the page
CallExtractRequirements ==
    /\ lastOp = "init"
    /\ ret' = extractRequirements(page)
    /\ lastOp' = "extractRequirements"
    /\ UNCHANGED << page, isJobPage, jobData, records, timers, notified, response, arg, delivery, backgroundVars, panelVars >>

SpecRequirements == InitRequirements /\ [][CallExtractRequirements]_allVars

\* C9 as claimed: for a description with a "Requirements:" and a
\* "Qualifications:" block (and no other heading) the result has two
\* entries in the order of the headings in the description, each the text
\* that follows its heading
C9_TwoEntriesInSourceOrder ==
    lastOp = "extractRequirements" =>
        LET d == extractJobDescription(page)
            low == ToLowerCase(d)
            at(h) == CHOOSE i \in 1..Len(low) :
                         /\ SubSeq(low, i, i + Len(h) - 1) = h
                         /\ \A j \in 1..(i - 1) : SubSeq(low, j, j + Len(h) - 1) # h
            after(h) == Trim(SubSeq(d, at(h) + Len(h), Len(d)))
            startsWith(s, t) == Len(t) <= Len(s) /\ SubSeq(s, 1, Len(t)) = t
            r == "requirements:"
            q == "qualifications:"
        IN  (/\ Includes(low, r) /\ Includes(low, q)
             /\ ~Includes(low, "must have") /\ ~Includes(low, "required"))
            => /\ Len(ret) = 2
               /\ IF at(r) < at(q)
                  THEN startsWith(after(r), ret[1]) /\ startsWith(after(q), ret[2])
                  ELSE startsWith(after(q), ret[1]) /\ startsWith(after(r), ret[2])

\* C9 amended: for such a description the result has two entries in the
\* order of the patterns, whatever the order of the headings: the text from
\* the first "Requirements:" heading to the end of the description, then
\* the text from the first "Qualifications:" heading to its end
C9_TwoEntriesInPatternOrder ==
    lastOp = "extractRequirements" =>
        LET d == extractJobDescription(page)
            low == ToLowerCase(d)
            at(h) == CHOOSE i \in 1..Len(low) :
                         /\ SubSeq(low, i, i + Len(h) - 1) = h
                         /\ \A j \in 1..(i - 1) : SubSeq(low, j, j + Len(h) - 1) # h
            after(h) == Trim(SubSeq(d, at(h) + Len(h), Len(d)))
        IN  (/\ Includes(low, "requirements:") /\ Includes(low, "qualifications:")
             /\ ~Includes(low, "must have") /\ ~Includes(low, "required"))
            => ret = << after("requirements:"), after("qualifications:") >>

\* C9 witness: "Qualifications:" stands ahead of "Requirements:" in the
\* description and the requirements entry is returned first
C9_Witness ==
    /\ lastOp = "extractRequirements"
    /\ extractJobDescription(page) =
           "Qualifications: BS in CS Requirements: 5 years experience"
    /\ ret = << "5 years experience", "BS in CS Requirements: 5 years experience" >>

\* descriptions naming two terms, vocabulary terms in several spellings and
\* words that contain or resemble them
SkillWords ==
    { "Python", "AWS", "java", "JAVASCRIPT", "C++", "c#", "Node.js", "node",
      "GitHub", "Sql", "mysql", "machine  learning", "Machine Learning", "R" }

SkillDescriptions ==
    {"Experience with " \o a \o " and " \o b \o " required" :
        a \in SkillWords, b \in SkillWords}

InitSkills ==
    /\ \E d \in SkillDescriptions : page = DescriptionPage(d)
    /\ arg = NoValue
    /\ Idle

\* extractSkills() on the page
CallExtractSkills ==
    /\ lastOp = "init"
    /\ ret' = extractSkills(page)
    /\ lastOp' = "extractSkills"
    /\ UNCHANGED << page, isJobPage, jobData, records, timers, notified, response, arg, delivery, backgroundVars, panelVars >>

SpecSkills == InitSkills /\ [][CallExtractSkills]_allVars

\* C10: extractSkills returns exactly the vocabulary terms whose lower-cased
\* form occurs in the lower-cased description, each once and in the order of
\* the vocabulary; "... Python and AWS required" gives << "Python", "AWS" >>
C10_SkillsInVocabularyOrder ==
    lastOp = "extractSkills" =>
        LET d == extractJobDescription(page)
            low == ToLowerCase(d)
            found == {k \in 1..Len(commonSkills) :
                         Includes(low, ToLowerCase(commonSkills[k]))}
            rank(t) == CHOOSE k \in 1..Len(commonSkills) : commonSkills[k] = t
        IN  /\ {ret[i] : i \in 1..Len(ret)} = {commonSkills[k] : k \in found}
            /\ Len(ret) = Cardinality(found)
            /\ \A i, j \in 1..Len(ret) : i < j => rank(ret[i]) < rank(ret[j])
            /\ d = "Experience with Python and AWS required"
                   => ret = << "Python", "AWS" >>

\* C10 witness: the description names AWS ahead of Python and the result
\* lists Python first
C10_Witness ==
    /\ lastOp = "extractSkills"
    /\ extractJobDescription(page) = "Experience with AWS and Python required"
    /\ ret = << "Python", "AWS" >>

\* raw element texts: two words behind, between and ahead of whitespace runs
\* of blanks, tabs and line breaks
CleanTextInputs ==
    {"", " ", "\n \n"} \cup
    {lead \o "Apply" \o mid \o "now" \o trail :
        lead \in {"", " ", "\n", "\t \n"},
        mid \in {" ", "  ", "    ", "\n", "\n\n", " \n \n ", "\t", "\n\t\n  \n"},
        trail \in {"", " ", "\n\n", " \t"}}

InitCleanText ==
    /\ page = Page(AcmeAbout, << >>)
    /\ arg \in CleanTextInputs
    /\ Idle

\* cleanText(arg)
CallCleanText ==
    /\ lastOp = "init"
    /\ ret' = cleanText(arg)
    /\ lastOp' = "cleanText"
    /\ UNCHANGED << page, isJobPage, jobData, records, timers, notified, response, arg, delivery, backgroundVars, panelVars >>

\* cleanText applied to the text cleanText returned: ret becomes the pair of
\* the text cleaned once and the text cleaned twice
CallCleanTextAgain ==
    /\ lastOp = "cleanText"
    /\ ret' = << ret, cleanText(ret) >>
    /\ lastOp' = "cleanTextAgain"
    /\ UNCHANGED << page, isJobPage, jobData, records, timers, notified, response, arg, delivery, backgroundVars, panelVars >>

NextCleanText == CallCleanText \/ CallCleanTextAgain

SpecCleanText == InitCleanText /\ [][NextCleanText]_allVars

\* C11: cleanText is idempotent: the text cleaned twice equals the text
\* cleaned once, for every input
C11_CleanTextIdempotent ==
    lastOp = "cleanTextAgain" => ret[2] = ret[1]

\* C11 witness: a text with leading, inner and trailing runs of blanks, tabs
\* and line breaks was changed by the first cleanText and left alone by the
\* second
C11_Witness ==
    /\ lastOp = "cleanTextAgain"
    /\ arg = "\t \nApply\n\t\n  \nnow\n\n"
    /\ ret = << "Apply now", "Apply now" >>

(***************************************************************************)
(* The background service worker (background.js).  A message is handled by *)
(* the async handleMessage: it runs to its first await on the storage, on  *)
(* the network or on the PDF generator when the message arrives, and goes  *)
(* on when that await settles; handlers of other messages run in between.  *)
(* The state is the one after the constructor and init() have run.         *)
(***************************************************************************)

\* messages received in one behaviour
MaxRequests == 2

KeyNotConfigured == "OpenAI API key not configured"
ProfileNotConfigured == "User profile not configured"
\* `OpenAI API error: ${error.error?.message}` of a response that is not ok
ApiErrorText == "Rate limit reached"
ApiError == "OpenAI API error: " \o ApiErrorText
\* the message of the TypeError of a fetch that rejects
NetworkError == "Failed to fetch"
\* the message of the error of a chrome.storage.local.set that rejects
StorageError == "QUOTA_BYTES quota exceeded"
\* handleMessage calls this.saveSettings, which the class does not define
NotAFunction == "this.saveSettings is not a function"
\* the fallback of downloadPDF throws in its turn
DownloadError == "URL.createObjectURL is not a function"

\* a settings object: api.apiKey, userProfile and customInstructions; the
\* other fields play no part
Settings(key, profile) ==
    [apiKey |-> key, userProfile |-> profile, customInstructions |-> ""]

\* getDefaultSettings(): an empty key and a profile object of empty fields
getDefaultSettings == Settings("", "blank profile")

\* the settings objects the options page sends: collectFormData() always
\* gives an api.apiKey string and a userProfile object
SettingsInputs == {Settings(key, "profile A") : key \in {"", "sk-A"}}

\* what the storage may hold when the service worker starts: nothing, an
\* object the options page saved, or an object without userProfile, the
\* case `settings.userProfile || null` and the handlers' tests provide for
StoredSettings == {NoSettings} \cup SettingsInputs \cup {Settings("sk-A", Null)}

\* `settings.api?.apiKey || null` and `settings.userProfile || null`
KeyOf(s) == IF s.apiKey = "" THEN Null ELSE s.apiKey
ProfileOf(s) == IF s.userProfile \in {"", Null} THEN Null ELSE s.userProfile

\* what chrome.storage.local.get(['settings']) settles with
GetOutcomes ==
    { [ok |-> TRUE, settings |-> storage], [ok |-> FALSE, settings |-> NoSettings] }

\* this.settings, this.apiKey and this.userProfile
Memory == [settings |-> settings, apiKey |-> apiKey, userProfile |-> userProfile]

\* loadSettings() once the storage has answered `got`
loadSettings(mem, got) ==
    IF got.ok /\ got.settings # NoSettings
    THEN [settings |-> got.settings,
          apiKey |-> KeyOf(got.settings),
          userProfile |-> ProfileOf(got.settings)]
    ELSE [mem EXCEPT !.settings = getDefaultSettings]

(***************************************************************************)
(* A stretch of handler code between two awaits gives the position the     *)
(* handler stops at, the endpoint call it has issued, the sendResponse     *)
(* calls it has made and the memory it leaves.                             *)
(***************************************************************************)

\* the handler threw: the catch of handleMessage answers with the message
Threw(mem, message) ==
    [pc |-> "done", call |-> "", mem |-> mem,
     respond |-> << [success |-> FALSE, error |-> message] >>]

\* the handler returned and handleMessage answers with `answer`
Returned(mem, answer) ==
    [pc |-> "done", call |-> "", mem |-> mem, respond |-> << answer >>]

\* the handler awaits the storage or the PDF generator at `pc`
Awaits(mem, pc) == [pc |-> pc, call |-> "", mem |-> mem, respond |-> << >>]

\* callOpenAI without its test of this.apiKey
callOpenAI_Unguarded(mem, step) ==
    [pc |-> step, call |-> step, mem |-> mem, respond |-> << >>]

\* callOpenAI(): throws without a key, else posts to the chat-completion
\* endpoint and awaits the answer
callOpenAI(mem, step) ==
    IF mem.apiKey = Null THEN Threw(mem, KeyNotConfigured)
    ELSE [pc |-> step, call |-> step, mem |-> mem, respond |-> << >>]

\* the value generateResume returns
Resume ==
    [content |-> "optimize", atsScore |-> "score",
     consistencyScore |-> "verify", jobAnalysis |-> "analyze"]

\* generateResume with the score step ahead of the optimize step
RECURSIVE generateResume_ScoreFirst(_, _)
generateResume_ScoreFirst(mem, point) ==
    CASE point = "start" ->
             IF mem.apiKey = Null THEN Awaits(mem, "reloadKey")
             ELSE generateResume_ScoreFirst(mem, "profile")
      [] point = "reloadKey" ->
             IF mem.apiKey = Null THEN Threw(mem, KeyNotConfigured)
             ELSE generateResume_ScoreFirst(mem, "profile")
      [] point = "profile" ->
             IF mem.userProfile = Null THEN Awaits(mem, "reloadProfile")
             ELSE callOpenAI(mem, "analyze")
      [] point = "reloadProfile" ->
             IF mem.userProfile = Null THEN Threw(mem, ProfileNotConfigured)
             ELSE callOpenAI(mem, "analyze")
      [] point = "analyze" -> callOpenAI(mem, "score")
      [] point = "score" ->
             IF mem.userProfile = Null THEN Awaits(mem, "reloadOptimize")
             ELSE callOpenAI(mem, "optimize")
      [] point = "reloadOptimize" -> callOpenAI(mem, "optimize")
      [] point = "optimize" -> callOpenAI(mem, "verify")
      [] point = "verify" -> Returned(mem, [success |-> TRUE, resume |-> Resume])

\* generateResume() from `point` on: "start", or the await that has just
\* settled
RECURSIVE generateResume(_, _)
generateResume(mem, point) ==
    CASE point = "start" ->
             IF mem.apiKey = Null THEN Awaits(mem, "reloadKey")
             ELSE generateResume(mem, "profile")
      [] point = "reloadKey" ->
             IF mem.apiKey = Null THEN Threw(mem, KeyNotConfigured)
             ELSE generateResume(mem, "profile")
      [] point = "profile" ->
             IF mem.userProfile = Null THEN Awaits(mem, "reloadProfile")
             ELSE callOpenAI(mem, "analyze")
      [] point = "reloadProfile" ->
             IF mem.userProfile = Null THEN Threw(mem, ProfileNotConfigured)
             ELSE callOpenAI(mem, "analyze")
      [] point = "analyze" ->
             \* optimizeResume() reloads the settings when the profile is gone
             IF mem.userProfile = Null THEN Awaits(mem, "reloadOptimize")
             ELSE callOpenAI(mem, "optimize")
      [] point = "reloadOptimize" -> callOpenAI(mem, "optimize")
      [] point = "optimize" -> callOpenAI(mem, "score")
      [] point = "score" -> callOpenAI(mem, "verify")
      [] point = "verify" -> Returned(mem, [success |-> TRUE, resume |-> Resume])

\* the value generateCoverLetter returns
CoverLetter == [content |-> "create", matchScore |-> "match"]

\* generateCoverLetter without its test of this.userProfile
generateCoverLetter_NoProfileTest(mem, point) ==
    CASE point = "start" ->
             IF mem.apiKey = Null THEN Threw(mem, KeyNotConfigured)
             ELSE callOpenAI(mem, "create")
      [] point = "create" -> callOpenAI(mem, "match")
      [] point = "match" ->
             Returned(mem, [success |-> TRUE, coverLetter |-> CoverLetter])

\* generateCoverLetter() from `point` on
generateCoverLetter(mem, point) ==
    CASE point = "start" ->
             IF mem.apiKey = Null THEN Threw(mem, KeyNotConfigured)
             ELSE IF mem.userProfile = Null THEN Threw(mem, ProfileNotConfigured)
             ELSE callOpenAI(mem, "create")
      [] point = "create" -> callOpenAI(mem, "match")
      [] point = "match" ->
             Returned(mem, [success |-> TRUE, coverLetter |-> CoverLetter])

\* getSettings()
getSettings(mem) ==
    [apiKey |-> mem.settings.apiKey, userProfile |-> ProfileOf(mem.settings)]

\* saveAllSettings assigning the fields ahead of the storage write
saveAllSettings_AssignFirst(mem, s, ok) ==
    LET saved == [settings |-> s, apiKey |-> KeyOf(s), userProfile |-> ProfileOf(s)]
    IN  IF ok THEN Returned(saved, [success |-> TRUE])
        ELSE Threw(saved, StorageError)

\* saveAllSettings(s) once chrome.storage.local.set has settled
saveAllSettings(mem, s, ok) ==
    IF ok
    THEN Returned([settings |-> s, apiKey |-> KeyOf(s), userProfile |-> ProfileOf(s)],
                  [success |-> TRUE])
    ELSE Threw(mem, StorageError)

\* importSettings(s) once chrome.storage.local.set has settled
importSettings(mem, s, ok) ==
    IF ok
    THEN Returned([settings |-> s, apiKey |-> KeyOf(s), userProfile |-> ProfileOf(s)],
                  [success |-> TRUE, message |-> "Settings imported successfully"])
    ELSE Threw(mem, StorageError)

\* the actions of the switch of handleMessage and one it does not know
Actions ==
    { "jobDetected", "generateResume", "generateCoverLetter", "getSettings",
      "getAllSettings", "saveSettings", "saveAllSettings", "testApiConnection",
      "downloadPDF", "calculateATSScore", "saveCustomInstructions",
      "importSettings", "ping" }

\* what a request of action a carries: request.settings or
\* request.instructions
PayloadsOf(a) ==
    CASE a = "saveAllSettings" -> SettingsInputs
      [] a = "importSettings" -> SettingsInputs \cup {NoSettings}
      [] a = "saveCustomInstructions" -> {"Keep it short"}
      [] OTHER -> {NoSettings}

\* handleMessage whose default branch forgets sendResponse
handleMessage_SilentDefault(mem, request) ==
    CASE request.action \in {"jobDetected", "saveAllSettings"} -> Awaits(mem, "write")
      [] request.action = "generateResume" -> generateResume(mem, "start")
      [] request.action = "generateCoverLetter" -> generateCoverLetter(mem, "start")
      [] request.action = "getSettings" ->
             Returned(mem, [success |-> TRUE, settings |-> getSettings(mem)])
      [] request.action = "getAllSettings" ->
             Returned(mem, [success |-> TRUE, settings |-> mem.settings])
      [] request.action = "saveSettings" -> Threw(mem, NotAFunction)
      [] request.action = "testApiConnection" ->
             [pc |-> "test", call |-> "test", mem |-> mem, respond |-> << >>]
      [] request.action = "downloadPDF" -> Awaits(mem, "download")
      [] request.action = "calculateATSScore" -> callOpenAI(mem, "score")
      [] request.action = "saveCustomInstructions" ->
             Awaits([mem EXCEPT !.settings.customInstructions = request.payload], "write")
      [] request.action = "importSettings" ->
             IF request.payload = NoSettings THEN Threw(mem, "Invalid settings data")
             ELSE Awaits(mem, "write")
      [] OTHER -> [pc |-> "done", call |-> "", mem |-> mem, respond |-> << >>]

\* handleMessage(request, sender, sendResponse) up to its first await
handleMessage(mem, request) ==
    CASE request.action \in {"jobDetected", "saveAllSettings"} -> Awaits(mem, "write")
      [] request.action = "generateResume" -> generateResume(mem, "start")
      [] request.action = "generateCoverLetter" -> generateCoverLetter(mem, "start")
      [] request.action = "getSettings" ->
             Returned(mem, [success |-> TRUE, settings |-> getSettings(mem)])
      [] request.action = "getAllSettings" ->
             Returned(mem, [success |-> TRUE, settings |-> mem.settings])
      [] request.action = "saveSettings" -> Threw(mem, NotAFunction)
      [] request.action = "testApiConnection" ->
             \* fetch with request.apiKey: this.apiKey is not looked at
             [pc |-> "test", call |-> "test", mem |-> mem, respond |-> << >>]
      [] request.action = "downloadPDF" -> Awaits(mem, "download")
      [] request.action = "calculateATSScore" -> callOpenAI(mem, "score")
      [] request.action = "saveCustomInstructions" ->
             \* this.settings.customInstructions is assigned ahead of the write
             Awaits([mem EXCEPT !.settings.customInstructions = request.payload], "write")
      [] request.action = "importSettings" ->
             IF request.payload = NoSettings THEN Threw(mem, "Invalid settings data")
             ELSE Awaits(mem, "write")
      [] OTHER -> Returned(mem, [success |-> FALSE, error |-> "Unknown action"])

\* the handler of `request` once the fetch it awaits has settled
AfterFetch(mem, request, outcome) ==
    IF request.action = "testApiConnection"
    THEN Returned(mem,
             CASE outcome = "ok" ->
                      [success |-> TRUE, message |-> "API connection successful"]
               [] outcome = ApiError -> [success |-> FALSE, error |-> ApiErrorText]
               [] OTHER -> [success |-> FALSE, error |-> outcome])
    ELSE IF outcome # "ok" THEN Threw(mem, outcome)
    ELSE CASE request.action = "generateResume" -> generateResume(mem, request.pc)
           [] request.action = "generateCoverLetter" ->
                  generateCoverLetter(mem, request.pc)
           [] request.action = "calculateATSScore" ->
                  Returned(mem, [success |-> TRUE, score |-> "score"])

\* the handler of `request` once the storage write it awaits has settled
AfterWrite(mem, request, ok) ==
    CASE request.action = "saveAllSettings" -> saveAllSettings(mem, request.payload, ok)
      [] request.action = "importSettings" -> importSettings(mem, request.payload, ok)
      [] OTHER -> IF ok THEN Returned(mem, [success |-> TRUE])
                  ELSE Threw(mem, StorageError)

\* the settings object a request hands to chrome.storage.local.set
WrittenBy(mem, request) ==
    CASE request.action \in {"saveAllSettings", "importSettings"} -> request.payload
      [] request.action = "saveCustomInstructions" -> mem.settings
      [] OTHER -> NoSettings

\* the endpoint call a stretch of handler code has issued, with the key and
\* the profile in memory at that moment
Issued(step) ==
    IF step.call = "" THEN << >>
    ELSE << [step |-> step.call, apiKey |-> step.mem.apiKey,
             userProfile |-> step.mem.userProfile, outcome |-> "pending"] >>

\* the fields a stretch of handler code leaves in memory
Remember(mem) ==
    /\ settings' = mem.settings
    /\ apiKey' = mem.apiKey
    /\ userProfile' = mem.userProfile

\* no content script in the picture
NoContentScript ==
    /\ page = Page(AcmeAbout, << >>)
    /\ isJobPage = FALSE
    /\ jobData = NoJob
    /\ records = << >>
    /\ timers = << >>
    /\ notified = << >>
    /\ delivery = "none"
    /\ response = NoResponse
    /\ lastOp = "init"
    /\ arg = NoValue
    /\ ret = NoValue

\* new ResumeAIProBackground() and init(): loadSettings() has run on what
\* the storage holds, or has failed to read it
InitBackground ==
    /\ storage \in StoredSettings
    /\ \E got \in GetOutcomes :
        \E mem \in {loadSettings([settings |-> NoSettings, apiKey |-> Null,
                                  userProfile |-> Null], got)} :
            /\ settings = mem.settings
            /\ apiKey = mem.apiKey
            /\ userProfile = mem.userProfile
    /\ requests = << >>
    /\ fetches = << >>
    /\ responses = << >>
    /\ NoContentScript
    /\ NoPanel

\* a message arrives: the listener calls handleMessage, which runs to its
\* first await
Receive ==
    /\ Len(requests) < MaxRequests
    /\ \E a \in Actions : \E payload \in PayloadsOf(a) :
        \E request \in {[action |-> a, payload |-> payload, pc |-> "start",
                         written |-> NoSettings]} :
            \E step \in {handleMessage(Memory, request)} :
                /\ requests' = Append(requests,
                       [request EXCEPT !.pc = step.pc,
                                       !.written = WrittenBy(step.mem, request)])
                /\ fetches' = Append(fetches, Issued(step))
                /\ responses' = Append(responses, step.respond)
                /\ Remember(step.mem)
    /\ UNCHANGED << storage, vars, panelVars >>

\* chrome.storage.local.get settles for a handler inside loadSettings()
StorageGetDone ==
    /\ \E id \in 1..Len(requests) : \E got \in GetOutcomes :
        /\ requests[id].pc \in {"reloadKey", "reloadProfile", "reloadOptimize"}
        /\ \E step \in {generateResume(loadSettings(Memory, got), requests[id].pc)} :
            /\ requests' = [requests EXCEPT ![id].pc = step.pc]
            /\ fetches' = [fetches EXCEPT ![id] = @ \o Issued(step)]
            /\ responses' = [responses EXCEPT ![id] = @ \o step.respond]
            /\ Remember(step.mem)
    /\ UNCHANGED << storage, vars, panelVars >>

\* chrome.storage.local.set settles: the item is written or the promise
\* rejects
StorageSetDone ==
    /\ \E id \in 1..Len(requests) : \E ok \in BOOLEAN :
        /\ requests[id].pc = "write"
        /\ storage' = IF ok /\ requests[id].written # NoSettings
                      THEN requests[id].written ELSE storage
        /\ \E step \in {AfterWrite(Memory, requests[id], ok)} :
            /\ requests' = [requests EXCEPT ![id].pc = step.pc]
            /\ responses' = [responses EXCEPT ![id] = @ \o step.respond]
            /\ Remember(step.mem)
    /\ UNCHANGED << fetches, vars, panelVars >>

\* the calls of the chat-completion endpoint a handler awaits
FetchSteps == {"analyze", "optimize", "score", "verify", "create", "match", "test"}

\* a fetch settles: the answer is ok, it is an API error, or the fetch
\* rejects
FetchDone ==
    /\ \E id \in 1..Len(requests) : \E outcome \in {"ok", ApiError, NetworkError} :
        /\ requests[id].pc \in FetchSteps
        /\ \E step \in {AfterFetch(Memory, requests[id], outcome)} :
            /\ requests' = [requests EXCEPT ![id].pc = step.pc]
            /\ fetches' = [fetches EXCEPT ![id] =
                              [@ EXCEPT ![Len(@)].outcome = outcome] \o Issued(step)]
            /\ responses' = [responses EXCEPT ![id] = @ \o step.respond]
            /\ Remember(step.mem)
    /\ UNCHANGED << storage, vars, panelVars >>

\* downloadPDF() ends: it has started a download, or its fallback threw
DownloadDone ==
    /\ \E id \in 1..Len(requests) : \E ok \in BOOLEAN :
        /\ requests[id].pc = "download"
        /\ \E step \in {IF ok THEN Returned(Memory, [success |-> TRUE])
                        ELSE Threw(Memory, DownloadError)} :
            /\ requests' = [requests EXCEPT ![id].pc = step.pc]
            /\ responses' = [responses EXCEPT ![id] = @ \o step.respond]
            /\ Remember(step.mem)
    /\ UNCHANGED << storage, fetches, vars, panelVars >>

NextBackground ==
    Receive \/ StorageGetDone \/ StorageSetDone \/ FetchDone \/ DownloadDone

SpecBackground == InitBackground /\ [][NextBackground]_allVars

(***************************************************************************)
(* Properties of the background service worker                             *)
(***************************************************************************)

\* C15: the endpoint calls of a generateResume request are a beginning of
\* analyze, optimize, score, verify in this order, each issued once; a call
\* is issued only when every call before it has returned an answer, so a
\* failed call is the last one and none is repeated; the message of the
\* failure is the error of the response, and a response of success comes
\* after exactly the four calls
C15_FourStepsInOrder ==
    \A id \in 1..Len(requests) :
        requests[id].action = "generateResume" =>
            LET calls == fetches[id]
                order == << "analyze", "optimize", "score", "verify" >>
                failure(answer) == << [success |-> FALSE, error |-> answer] >>
            IN  /\ Len(calls) <= 4
                /\ \A k \in 1..Len(calls) :
                    /\ calls[k].step = order[k]
                    /\ k < Len(calls) => calls[k].outcome = "ok"
                    /\ calls[k].outcome = "pending" =>
                           requests[id].pc = order[k] /\ responses[id] = << >>
                    /\ calls[k].outcome \notin {"ok", "pending"} =>
                           /\ requests[id].pc = "done"
                           /\ responses[id] = failure(calls[k].outcome)
                /\ (responses[id] # << >> /\ responses[id][1].success) =>
                       /\ Len(calls) = 4
                       /\ calls[4].outcome = "ok"

\* C15 witness: analyze and optimize returned, score failed with an API
\* error, verify was never started and the requester got that error
C15_Witness ==
    \E id \in 1..Len(requests) :
        /\ requests[id].action = "generateResume"
        /\ Len(fetches[id]) = 3
        /\ fetches[id][1].outcome = "ok"
        /\ fetches[id][2].outcome = "ok"
        /\ fetches[id][3].step = "score"
        /\ fetches[id][3].outcome = ApiError
        /\ responses[id] = << [success |-> FALSE, error |-> ApiError] >>

\* C16: generateResume and generateCoverLetter issue every endpoint call
\* with a key in memory and start calling only with a profile in memory (the
\* profile is tested ahead of the first call, the key ahead of each); a
\* request that arrives without one issues no call in the handler's first
\* stretch (the cover letter fails at once, the resume reloads the
\* settings), and a request that ends without a call has failed with one of
\* the two "not configured" messages
C16_NoCallUnconfigured ==
    /\ [](\A id \in 1..Len(requests) :
            requests[id].action \in {"generateResume", "generateCoverLetter"} =>
                /\ \A k \in 1..Len(fetches[id]) : fetches[id][k].apiKey # Null
                /\ fetches[id] # << >> => fetches[id][1].userProfile # Null
                /\ requests[id].pc \in {"reloadKey", "reloadProfile"} =>
                       fetches[id] = << >>
                /\ (requests[id].pc = "done" /\ fetches[id] = << >>) =>
                       \/ responses[id] =
                              << [success |-> FALSE, error |-> "OpenAI API key not configured"] >>
                       \/ responses[id] =
                              << [success |-> FALSE, error |-> "User profile not configured"] >>)
    /\ [][ (/\ Len(requests') = Len(requests) + 1
            /\ apiKey = Null \/ userProfile = Null) =>
              LET id == Len(requests')
                  message == IF apiKey = Null THEN "OpenAI API key not configured"
                             ELSE "User profile not configured"
              IN  /\ requests'[id].action = "generateCoverLetter" =>
                         /\ fetches'[id] = << >>
                         /\ responses'[id] = << [success |-> FALSE, error |-> message] >>
                  /\ requests'[id].action = "generateResume" =>
                         /\ fetches'[id] = << >>
                         /\ requests'[id].pc \in {"reloadKey", "reloadProfile"}
         ]_allVars

\* C16 witness: with a key and no profile in memory a cover-letter request
\* has failed with "User profile not configured" and called nothing
C16_Witness ==
    \E id \in 1..Len(requests) :
        /\ requests[id].action = "generateCoverLetter"
        /\ apiKey # Null
        /\ userProfile = Null
        /\ fetches[id] = << >>
        /\ responses[id] = << [success |-> FALSE, error |-> ProfileNotConfigured] >>

(***************************************************************************)
(* The options page (unnamed/part_000).  populateForms writes the settings *)
(* object into the form, collectFormData reads the form back.  A form      *)
(* field holds a string (value) or a boolean (checked); numbers are        *)
(* written as their decimal text and read back with parseInt / parseFloat. *)
(* The model keeps the api, parameters and advanced sections of the        *)
(* settings object; temperature is counted in tenths.                      *)
(***************************************************************************)

Digits == "0123456789"

NaN == "NaN"

IsDigit(c) == \E d \in 1..Len(Digits) : CharAt(Digits, d) = c

DigitValue(c) == (CHOOSE d \in 1..Len(Digits) : CharAt(Digits, d) = c) - 1

\* the position after the run of digits of s that starts at i
RECURSIVE DigitsEnd(_, _)
DigitsEnd(s, i) ==
    IF i <= Len(s) /\ IsDigit(CharAt(s, i)) THEN DigitsEnd(s, i + 1) ELSE i

\* the value of the digits of s from lo to hi - 1, continuing from acc
RECURSIVE DigitsValue(_, _, _, _)
DigitsValue(s, lo, hi, acc) ==
    IF lo >= hi THEN acc
    ELSE DigitsValue(s, lo + 1, hi, acc * 10 + DigitValue(CharAt(s, lo)))

\* the position of the first character of s that is not whitespace
RECURSIVE SkipWhiteSpace(_, _)
SkipWhiteSpace(s, i) ==
    IF i <= Len(s) /\ CharAt(s, i) \in WhiteSpace THEN SkipWhiteSpace(s, i + 1) ELSE i

\* parseInt(s): leading whitespace, an optional sign, then the longest run of
\* digits; NaN when there is no digit
parseInt(s) ==
    LET b == SkipWhiteSpace(s, 1)
        neg == b <= Len(s) /\ CharAt(s, b) = "-"
        lo == IF b <= Len(s) /\ CharAt(s, b) \in {"-", "+"} THEN b + 1 ELSE b
        hi == DigitsEnd(s, lo)
    IN  IF hi = lo THEN NaN
        ELSE IF neg THEN 0 - DigitsValue(s, lo, hi, 0)
        ELSE DigitsValue(s, lo, hi, 0)

\* parseFloat(s), in tenths: the digits ahead of the point and the first
\* digit behind it; NaN when there is no digit
parseFloat(s) ==
    LET b == SkipWhiteSpace(s, 1)
        hi == DigitsEnd(s, b)
        whole == DigitsValue(s, b, hi, 0)
        hasFraction == hi < Len(s) /\ CharAt(s, hi) = "." /\ IsDigit(CharAt(s, hi + 1))
    IN  IF hi = b /\ ~hasFraction THEN NaN
        ELSE IF hasFraction THEN whole * 10 + DigitValue(CharAt(s, hi + 1))
        ELSE whole * 10

\* the text an element's value takes when a whole number is assigned to it
NumberToString(n) == ToString(n)

\* the text an element's value takes when a number of tenths is assigned
TenthsToString(t) ==
    IF t % 10 = 0 THEN ToString(t \div 10)
    ELSE ToString(t \div 10) \o "." \o ToString(t % 10)

\* value || fallback for a number of the settings object: 0 is falsy
NumberOr(n, fallback) == IF n = 0 THEN fallback ELSE n

\* value || fallback for a string: the empty string is falsy
StringOr(s, fallback) == IF s = "" THEN fallback ELSE s

\* the form after populateForms() with this.settings = s
populateForms(s) ==
    [ apiKey                |-> StringOr(s.api.apiKey, ""),
      apiModel              |-> StringOr(s.api.model, "gpt-5"),
      apiTemperature        |-> TenthsToString(NumberOr(s.api.temperature, 3)),
      maxTokens             |-> NumberToString(NumberOr(s.api.maxTokens, 2000)),
      keywordDensity        |-> NumberToString(NumberOr(s.parameters.keywordDensity, 3)),
      optimizationLevel     |-> StringOr(s.parameters.optimizationLevel, "balanced"),
      autoGenerate          |-> s.advanced.autoGenerate \/ FALSE,
      includeCoverLetter    |-> s.advanced.includeCoverLetter # FALSE,
      storylineVerification |-> s.advanced.storylineVerification # FALSE,
      dataRetention         |-> NumberToString(NumberOr(s.advanced.dataRetention, 30)),
      analytics             |-> s.advanced.analytics \/ FALSE ]

\* the settings object collectFormData() builds from the form
collectFormData(form) ==
    [ api |->
        [ apiKey      |-> form.apiKey,
          model       |-> form.apiModel,
          temperature |-> parseFloat(form.apiTemperature),
          maxTokens   |-> parseInt(form.maxTokens) ],
      parameters |->
        [ keywordDensity    |-> parseInt(form.keywordDensity),
          optimizationLevel |-> form.optimizationLevel ],
      advanced |->
        [ autoGenerate          |-> form.autoGenerate,
          includeCoverLetter    |-> form.includeCoverLetter,
          storylineVerification |-> form.storylineVerification,
          dataRetention         |-> parseInt(form.dataRetention),
          analytics             |-> form.analytics ] ]

\* settings objects as an exported file holds them: whole numbers including
\* 0, a model name or none, a temperature in tenths, any flags
OptionsSettings ==
    { [ api |-> [ apiKey |-> "sk-A", model |-> m, temperature |-> t, maxTokens |-> mt ],
        parameters |-> [ keywordDensity |-> kd, optimizationLevel |-> "aggressive" ],
        advanced |-> [ autoGenerate |-> ag, includeCoverLetter |-> icl,
                       storylineVerification |-> TRUE, dataRetention |-> dr,
                       analytics |-> FALSE ] ] :
        m \in {"gpt-5", "gpt-4o"}, t \in {3, 7, 10}, mt \in {0, 1, 2000},
        kd \in {0, 3, 5}, dr \in {0, 30, 90}, ag \in BOOLEAN, icl \in BOOLEAN }

InitOptions ==
    /\ page = Page(AcmeAbout, << >>)
    /\ arg \in OptionsSettings
    /\ Idle

\* handleImportFile: this.settings = arg; populateForms().  ret is the form.
HandleImportFile ==
    /\ lastOp = "init"
    /\ ret' = populateForms(arg)
    /\ lastOp' = "populateForms"
    /\ UNCHANGED << page, isJobPage, jobData, records, timers, notified, response, arg, delivery, backgroundVars, panelVars >>

\* exportSettings: collectFormData().  ret becomes the pair of the form and
\* the settings object collected from it.
ExportSettings ==
    /\ lastOp = "populateForms"
    /\ ret' = << ret, collectFormData(ret) >>
    /\ lastOp' = "collectFormData"
    /\ UNCHANGED << page, isJobPage, jobData, records, timers, notified, response, arg, delivery, backgroundVars, panelVars >>

NextOptions == HandleImportFile \/ ExportSettings

SpecOptions == InitOptions /\ [][NextOptions]_allVars

\* C17: populating the form from a settings object and collecting the form
\* again yields the same settings values, for every settings object with
\* whole-number maxTokens, keywordDensity and dataRetention (0 included), any
\* model name and any flags
C17_RoundTrip ==
    lastOp = "collectFormData" => ret[2] = arg

\* C17: the round trip is faithful for the settings objects whose numbers
\* are all different from 0
C17_RoundTripNonZero ==
    lastOp = "collectFormData"
        /\ arg.api.maxTokens # 0 /\ arg.parameters.keywordDensity # 0
        /\ arg.advanced.dataRetention # 0
        => ret[2] = arg

\* C17: a settings object with maxTokens 0 comes back with maxTokens 2000
C17_ZeroBecomesDefault ==
    /\ lastOp = "collectFormData"
    /\ arg.api.maxTokens = 0
    /\ ret[1].maxTokens = "2000"
    /\ ret[2].api.maxTokens = 2000

\* C18: handleMessage calls sendResponse exactly once for a message: no
\* answer while the handler awaits, one when it is through, never a second
\* one and never a changed one; an action the switch does not know is
\* answered 'Unknown action'; a handler that throws is answered success
\* false with the message thrown (the storage's, the fetch's or the
\* handler's own); otherwise the answer is the handler's result under the
\* name the switch gives it
C18_RespondsExactlyOnce ==
    /\ [](\A id \in 1..Len(requests) :
            LET r == requests[id]
                a == responses[id]
            IN  /\ Len(a) <= 1
                /\ (r.pc = "done") <=> (Len(a) = 1)
                /\ Len(a) = 1 =>
                    \/ /\ a[1].success = FALSE
                       /\ DOMAIN a[1] = {"success", "error"}
                       /\ a[1].error \in
                            CASE r.action = "ping" -> {"Unknown action"}
                              [] r.action = "saveSettings" -> {NotAFunction}
                              [] r.action \in {"jobDetected", "saveAllSettings",
                                               "saveCustomInstructions"} -> {StorageError}
                              [] r.action = "importSettings" ->
                                     {StorageError, "Invalid settings data"}
                              [] r.action = "downloadPDF" -> {DownloadError}
                              [] r.action = "testApiConnection" ->
                                     {ApiErrorText, NetworkError}
                              [] r.action = "calculateATSScore" ->
                                     {KeyNotConfigured, ApiError, NetworkError}
                              [] r.action \in {"generateResume", "generateCoverLetter"} ->
                                     {KeyNotConfigured, ProfileNotConfigured,
                                      ApiError, NetworkError}
                              [] OTHER -> {}
                    \/ /\ a[1].success = TRUE
                       /\ DOMAIN a[1] = {"success"} \cup
                            CASE r.action = "generateResume" -> {"resume"}
                              [] r.action = "generateCoverLetter" -> {"coverLetter"}
                              [] r.action \in {"getSettings", "getAllSettings"} ->
                                     {"settings"}
                              [] r.action = "calculateATSScore" -> {"score"}
                              [] r.action \in {"testApiConnection", "importSettings"} ->
                                     {"message"}
                              [] r.action \in {"jobDetected", "saveAllSettings",
                                               "downloadPDF", "saveCustomInstructions"} -> {}
                              [] OTHER -> {"no such answer"})
    /\ [][ \A id \in 1..Len(requests) :
            /\ responses[id] # << >> => responses'[id] = responses[id]
            /\ responses'[id] # responses[id] =>
                 /\ requests[id].pc # "done"
                 /\ requests'[id].pc = "done"
                 /\ \/ fetches[id] = << >>
                    \/ fetches'[id][Len(fetches[id])].outcome = "ok"
                    \/ requests[id].action = "testApiConnection"
                    \/ responses'[id] =
                         << [success |-> FALSE,
                             error |-> fetches'[id][Len(fetches[id])].outcome] >>
         ]_allVars

\* C18 witness: a message of unknown action was answered 'Unknown action'
\* at once, and a downloadPDF whose handler threw was answered once with
\* the message thrown
C18_Witness ==
    /\ Len(requests) = 2
    /\ requests[1].action = "ping"
    /\ responses[1] = << [success |-> FALSE, error |-> "Unknown action"] >>
    /\ requests[2].action = "downloadPDF"
    /\ requests[2].pc = "done"
    /\ responses[2] = << [success |-> FALSE, error |-> DownloadError] >>

\* C19: when the storage write of a saveAllSettings request settles, either
\* it failed: the handler leaves this.settings, this.apiKey and
\* this.userProfile (and the stored item) as they were and the storage's
\* error is the answer; or it succeeded: the three fields are the saved
\* object, its key (null for an empty one) and its profile, and the storage
\* holds the saved object
C19_SaveAllOrNothing ==
    [][ \A id \in 1..Len(requests) :
            requests[id].action = "saveAllSettings"
                /\ requests[id].pc = "write" /\ requests'[id].pc = "done"
            =>
            LET saved == requests[id].payload
            IN  \/ /\ responses'[id] = << [success |-> FALSE, error |-> StorageError] >>
                   /\ settings' = settings
                   /\ apiKey' = apiKey
                   /\ userProfile' = userProfile
                   /\ storage' = storage
                \/ /\ responses'[id] = << [success |-> TRUE] >>
                   /\ settings' = saved
                   /\ apiKey' = IF saved.apiKey = "" THEN Null ELSE saved.apiKey
                   /\ userProfile' = saved.userProfile
                   /\ storage' = saved
      ]_allVars

\* C19 witness: a saveAllSettings whose write failed was answered with the
\* storage's error and left the memory different from the object it was to
\* save; a second one succeeded and the memory is the object it saved
C19_Witness ==
    /\ Len(requests) = 2
    /\ requests[1].action = "saveAllSettings"
    /\ requests[1].payload = Settings("sk-A", "profile A")
    /\ responses[1] = << [success |-> FALSE, error |-> StorageError] >>
    /\ requests[2].action = "saveAllSettings"
    /\ requests[2].payload = Settings("", "profile A")
    /\ responses[2] = << [success |-> TRUE] >>
    /\ settings = Settings("", "profile A")
    /\ apiKey = Null
    /\ userProfile = "profile A"
    /\ storage = Settings("", "profile A")

\* the actions of handleMessage that write the settings object
SettingsOperations == {"saveAllSettings", "importSettings", "saveCustomInstructions"}

\* C21 as claimed: once every settings operation that was started has
\* completed, whatever the order of their storage writes and whether each
\* succeeded or failed, this.settings is the settings object in storage
C21_MemoryEqualsStorage ==
    (/\ \E id \in 1..Len(requests) : requests[id].action \in SettingsOperations
     /\ \A id \in 1..Len(requests) :
            requests[id].action \in SettingsOperations => requests[id].pc = "done")
        => settings = storage

\* C21: a saveAllSettings and a saveCustomInstructions that overlapped have
\* both succeeded, and this.settings is the object of the first while the
\* storage holds the object of the second
C21_OverlapLeavesThemApart ==
    /\ Len(requests) = 2
    /\ requests[1].action = "saveAllSettings"
    /\ requests[2].action = "saveCustomInstructions"
    /\ responses[1] = << [success |-> TRUE] >>
    /\ responses[2] = << [success |-> TRUE] >>
    /\ settings = requests[1].payload
    /\ storage = requests[2].written
    /\ settings # storage

\* C21: a saveCustomInstructions whose write failed has left its
\* instructions in this.settings and not in the storage
C21_FailedWriteLeavesThemApart ==
    /\ Len(requests) = 1
    /\ requests[1].action = "saveCustomInstructions"
    /\ responses[1] = << [success |-> FALSE, error |-> StorageError] >>
    /\ storage # NoSettings
    /\ storage.customInstructions = ""
    /\ settings = [storage EXCEPT !.customInstructions = requests[1].payload]

\* C22 as claimed: while no settings operation is in progress, this.apiKey
\* is the key of this.settings (null for an empty one) and this.userProfile
\* is the profile of this.settings, also after loadSettings fell back to the
\* defaults
C22_CacheAgreesWithSettings ==
    (\A id \in 1..Len(requests) :
        requests[id].action \in SettingsOperations => requests[id].pc = "done")
        => /\ apiKey = IF settings.apiKey = "" THEN Null ELSE settings.apiKey
           /\ userProfile = settings.userProfile

\* C22: on an empty storage loadSettings has installed the defaults, whose
\* profile is the blank one, and this.userProfile is still null: getSettings
\* answers a profile that generateResume does not find
C22_DefaultsWithoutProfile ==
    /\ requests = << >>
    /\ storage = NoSettings
    /\ settings = getDefaultSettings
    /\ getSettings(Memory).userProfile # Null
    /\ userProfile = Null

(***************************************************************************)
(* The side panel (class ResumeAIProSidebar, README.md from line 293).  A  *)
(* click runs its handler to the handler's first await; the async function *)
(* goes on when the delay, the answer of the background or the answer of   *)
(* the content script it awaits arrives, and other handlers run in         *)
(* between.  The page's HTML is not part of the sources: a button is taken *)
(* to be clickable at any time, the save button of the custom-instructions *)
(* dialog while the dialog is shown.  The state is the one after the       *)
(* constructor and init(): loadSettings() is through, the listeners are    *)
(* set up and the first checkCurrentPage() awaits.                         *)
(***************************************************************************)

\* async functions of the side panel started in one behaviour
MaxWork == 3

\* the postings a content script answers to getJobData
SidebarJobs == {[title |-> "Data Analyst"], [title |-> "Staff Engineer"]}

\* this.settings after loadSettings(): the settings of a getSettings answer,
\* or undefined when the request failed
SidebarSettings ==
    {NoSettings} \cup
    {[apiKey |-> k, userProfile |-> p] : k \in {"", "sk-A"}, p \in {Null, "profile A"}}

\* this.settings?.apiKey and this.settings?.userProfile
OptionalApiKey(s) == IF s = NoSettings THEN Null ELSE s.apiKey

OptionalUserProfile(s) == IF s = NoSettings THEN Null ELSE s.userProfile

NoJobData == "No job data available"
NoApiKey == "Please configure your OpenAI API key in settings"
NoUserProfile == "Please configure your user profile in settings"

\* an async function of the side panel that awaits at pc
Work(kind, pc, via) == [kind |-> kind, pc |-> pc, via |-> via]

\* showError(message)
showError(sb, message) == [sb EXCEPT !.error = message]

\* startResumeGeneration() up to its first await, the delay of 1000 ms
startResumeGeneration(sb, via) ==
    [sb EXCEPT !.isGenerating = TRUE,
               !.work = Append(@, Work("resume", "delay", via))]

\* handleAnalyzeJob without its test of the user profile
handleAnalyzeJob_NoProfileTest(sb, via) ==
    IF sb.currentJob = NoJob THEN showError(sb, NoJobData)
    ELSE IF ~Truthy(OptionalApiKey(sb.settings)) THEN showError(sb, NoApiKey)
    ELSE startResumeGeneration(sb, via)

\* handleAnalyzeJob()
handleAnalyzeJob(sb, via) ==
    IF sb.currentJob = NoJob THEN showError(sb, NoJobData)
    ELSE IF ~Truthy(OptionalApiKey(sb.settings)) THEN showError(sb, NoApiKey)
    ELSE IF OptionalUserProfile(sb.settings) = Null THEN showError(sb, NoUserProfile)
    ELSE startResumeGeneration(sb, via)

\* handleGenerateCoverLetter(): the custom-instructions dialog is shown
handleGenerateCoverLetter(sb) ==
    IF sb.currentJob = NoJob THEN showError(sb, NoJobData)
    ELSE IF ~Truthy(OptionalApiKey(sb.settings)) THEN showError(sb, NoApiKey)
    ELSE [sb EXCEPT !.modal = TRUE]

\* handleRegenerateResume()
handleRegenerateResume(sb) ==
    IF sb.isGenerating THEN sb
    ELSE handleAnalyzeJob([sb EXCEPT !.currentResume = Null], "regenerate")

\* handleRegenerateCoverLetter()
handleRegenerateCoverLetter(sb) ==
    IF sb.isGenerating THEN sb
    ELSE [sb EXCEPT !.currentCoverLetter = Null, !.modal = TRUE]

\* saveCustomInstructions() up to its await of the background's answer
saveCustomInstructions(sb) ==
    [sb EXCEPT !.sent = Append(@, [action |-> "saveCustomInstructions",
                                   jobData |-> NoJob]),
               !.work = Append(@, Work("save", "request", "click"))]

\* checkCurrentPage() up to its await of chrome.tabs.query
checkCurrentPage(sb) ==
    [sb EXCEPT !.work = Append(@, Work("check", "query", "click"))]

\* chrome.tabs.query or chrome.tabs.sendMessage rejected
Rejected == [rejected |-> TRUE]

\* checkCurrentPage() number i once the content script has answered
\* `answer`, a getJobData response, or the await has rejected
checkCurrentPage_Answered(sb, i, answer) ==
    IF answer = Rejected
    THEN [sb EXCEPT !.status = "Error scanning page", !.work[i].pc = "done"]
    ELSE IF answer # NoResponse /\ answer.isJobPage /\ answer.jobData # NoJob
    THEN [sb EXCEPT !.currentJob = answer.jobData,
                    !.status = "Job detected!",
                    !.work[i].pc = "done"]
    ELSE [sb EXCEPT !.status = "No job detected", !.work[i].pc = "done"]

\* the request a generation sends once its first delay is over
GenerationRequest(sb, i) ==
    [action |-> IF sb.work[i].kind = "resume" THEN "generateResume"
                ELSE "generateCoverLetter",
     jobData |-> sb.currentJob]

\* start...Generation() number i from the end of its first delay to its
\* await of the background's answer
Generation_Requests(sb, i) ==
    [sb EXCEPT !.sent = Append(@, GenerationRequest(sb, i)),
               !.work[i].pc = "request"]

\* start...Generation() number i once the background has answered: on
\* success it awaits its last delays, else catch and finally run
Generation_Answered(sb, i, success) ==
    IF success THEN [sb EXCEPT !.work[i].pc = "finishing"]
    ELSE [sb EXCEPT !.error = IF sb.work[i].kind = "resume"
                               THEN "Error generating resume"
                               ELSE "Error generating cover letter",
                    !.isGenerating = FALSE,
                    !.work[i].pc = "done"]

\* start...Generation() number i after its last delay: the result is kept
\* and shown, finally runs
Generation_Finishes(sb, i) ==
    IF sb.work[i].kind = "resume"
    THEN [sb EXCEPT !.currentResume = "resume", !.isGenerating = FALSE,
                    !.work[i].pc = "done"]
    ELSE [sb EXCEPT !.currentCoverLetter = "cover letter", !.isGenerating = FALSE,
                    !.work[i].pc = "done"]

\* saveCustomInstructions() number i once sendMessage has settled: resolved
\* with any answer it hides the dialog and runs startCoverLetterGeneration()
\* to its first delay, rejected it shows the error
saveCustomInstructions_Answered(sb, i, resolved) ==
    IF resolved
    THEN [sb EXCEPT !.modal = FALSE, !.isGenerating = TRUE,
                    !.work[i] = Work("coverLetter", "delay", "save")]
    ELSE [sb EXCEPT !.error = "Error saving instructions", !.work[i].pc = "done"]

InitSidebar ==
    /\ \E s \in SidebarSettings :
        sidebar = checkCurrentPage(
                    [currentJob |-> NoJob, currentResume |-> Null,
                     currentCoverLetter |-> Null, isGenerating |-> FALSE,
                     settings |-> s, modal |-> FALSE, error |-> Null,
                     status |-> "", work |-> << >>, sent |-> << >>])
    /\ logger = [isNull |-> TRUE]
    /\ NoContentScript
    /\ NoBackground

\* a click on analyze-job
ClickAnalyzeJob ==
    /\ Len(sidebar.work) < MaxWork
    /\ sidebar' = handleAnalyzeJob([sidebar EXCEPT !.error = Null], "click")
    /\ lastOp' = "handleAnalyzeJob"
    /\ UNCHANGED << page, isJobPage, jobData, records, timers, notified, response, arg, ret, delivery, logger, backgroundVars >>

\* a click on generate-cover-letter
ClickGenerateCoverLetter ==
    /\ sidebar' = handleGenerateCoverLetter([sidebar EXCEPT !.error = Null])
    /\ lastOp' = "handleGenerateCoverLetter"
    /\ UNCHANGED << page, isJobPage, jobData, records, timers, notified, response, arg, ret, delivery, logger, backgroundVars >>

\* a click on save-instructions in the dialog
ClickSaveInstructions ==
    /\ sidebar.modal
    /\ Len(sidebar.work) < MaxWork
    /\ sidebar' = saveCustomInstructions(sidebar)
    /\ lastOp' = "saveCustomInstructions"
    /\ UNCHANGED << page, isJobPage, jobData, records, timers, notified, response, arg, ret, delivery, logger, backgroundVars >>

\* a click on regenerate-resume or on regenerate-cover-letter
ClickRegenerate ==
    /\ \/ /\ Len(sidebar.work) < MaxWork
          /\ sidebar' = handleRegenerateResume([sidebar EXCEPT !.error = Null])
          /\ lastOp' = "handleRegenerateResume"
       \/ /\ sidebar' = handleRegenerateCoverLetter(sidebar)
          /\ lastOp' = "handleRegenerateCoverLetter"
    /\ UNCHANGED << page, isJobPage, jobData, records, timers, notified, response, arg, ret, delivery, logger, backgroundVars >>

\* a click on refresh-job: refreshJobData()
ClickRefreshJob ==
    /\ Len(sidebar.work) < MaxWork
    /\ sidebar' = checkCurrentPage(sidebar)
    /\ lastOp' = "refreshJobData"
    /\ UNCHANGED << page, isJobPage, jobData, records, timers, notified, response, arg, ret, delivery, logger, backgroundVars >>

\* the getJobData responses of a content script: none, not a job page,
\* a job page without a posting, a job page with its posting
JobDataAnswers ==
    {NoResponse, [isJobPage |-> FALSE, jobData |-> NoJob],
     [isJobPage |-> TRUE, jobData |-> NoJob]}
    \cup {[isJobPage |-> TRUE, jobData |-> j] : j \in SidebarJobs}

\* the tab query and the getJobData request of a page check settle
PageCheckDone ==
    /\ \E i \in 1..Len(sidebar.work) :
        /\ sidebar.work[i].kind = "check"
        /\ sidebar.work[i].pc = "query"
        /\ \/ \E answer \in JobDataAnswers :
                /\ sidebar' = checkCurrentPage_Answered(sidebar, i, answer)
                /\ response' = answer
           \/ /\ sidebar' = checkCurrentPage_Answered(sidebar, i, Rejected)
              /\ response' = NoResponse
    /\ lastOp' = "checkCurrentPage"
    /\ UNCHANGED << page, isJobPage, jobData, records, timers, notified, arg, ret, delivery, logger, backgroundVars >>

\* the first delay of a generation is over: it sends its request
DelayDone ==
    /\ \E i \in 1..Len(sidebar.work) :
        /\ sidebar.work[i].kind \in {"resume", "coverLetter"}
        /\ sidebar.work[i].pc = "delay"
        /\ sidebar' = Generation_Requests(sidebar, i)
    /\ lastOp' = "sendMessage"
    /\ UNCHANGED << page, isJobPage, jobData, records, timers, notified, response, arg, ret, delivery, logger, backgroundVars >>

\* the background's answer to a request arrives, or the message fails
AnswerArrives ==
    /\ \E i \in 1..Len(sidebar.work) : \E good \in BOOLEAN :
        /\ sidebar.work[i].pc = "request"
        /\ sidebar' = IF sidebar.work[i].kind = "save"
                      THEN saveCustomInstructions_Answered(sidebar, i, good)
                      ELSE Generation_Answered(sidebar, i, good)
    /\ lastOp' = "answer"
    /\ UNCHANGED << page, isJobPage, jobData, records, timers, notified, response, arg, ret, delivery, logger, backgroundVars >>

\* the last delays of a generation are over
FinishDone ==
    /\ \E i \in 1..Len(sidebar.work) :
        /\ sidebar.work[i].pc = "finishing"
        /\ sidebar' = Generation_Finishes(sidebar, i)
    /\ lastOp' = "finish"
    /\ UNCHANGED << page, isJobPage, jobData, records, timers, notified, response, arg, ret, delivery, logger, backgroundVars >>

NextSidebar ==
    \/ ClickAnalyzeJob \/ ClickGenerateCoverLetter \/ ClickSaveInstructions
    \/ ClickRegenerate \/ ClickRefreshJob
    \/ PageCheckDone \/ DelayDone \/ AnswerArrives \/ FinishDone

SpecSidebar == InitSidebar /\ [][NextSidebar]_allVars

\* a generation is in flight: a start...Generation() that has not reached
\* its finally
GenerationInFlight(sb) ==
    \E i \in 1..Len(sb.work) :
        /\ sb.work[i].kind \in {"resume", "coverLetter"}
        /\ sb.work[i].pc # "done"

\* C23 as claimed: isGenerating is true whenever a resume or cover-letter
\* generation is in flight, under every sequence and overlap of clicks, so
\* a regenerate click starts nothing while a generation is running
C23_GeneratingWhileInFlight ==
    /\ [](GenerationInFlight(sidebar) => sidebar.isGenerating)
    /\ [][ GenerationInFlight(sidebar)
            /\ lastOp' \in {"handleRegenerateResume", "handleRegenerateCoverLetter"}
            => sidebar' = [sidebar EXCEPT !.error = sidebar'.error] ]_allVars

\* C23: a resume generation and a cover-letter generation overlapped; the
\* first has ended and reset isGenerating while the second still awaits the
\* background, and a click on regenerate-cover-letter was not refused: it
\* has dropped the cover letter and opened the dialog
C23_RegenerateNextToGeneration ==
    /\ Len(sidebar.work) = 3
    /\ sidebar.work[2] = Work("resume", "done", "click")
    /\ sidebar.work[3] = Work("coverLetter", "request", "save")
    /\ ~sidebar.isGenerating
    /\ lastOp = "handleRegenerateCoverLetter"
    /\ sidebar.modal

\* C25: a generateResume request leaves the side panel only in a state with
\* a current job, an API key and a user profile, and carries that job; a
\* click on analyze-job with one of the three missing shows the error of the
\* first one missing and starts and sends nothing
C25_AnalyzeNeedsJobKeyProfile ==
    [][ /\ sidebar'.sent # sidebar.sent
            /\ sidebar'.sent[Len(sidebar'.sent)].action = "generateResume"
            => /\ sidebar.currentJob # NoJob
               /\ sidebar.settings # NoSettings
               /\ sidebar.settings.apiKey # ""
               /\ sidebar.settings.userProfile # Null
               /\ sidebar'.sent[Len(sidebar'.sent)].jobData = sidebar.currentJob
        /\ lastOp' = "handleAnalyzeJob" =>
            LET job == sidebar.currentJob # NoJob
                key == sidebar.settings # NoSettings /\ sidebar.settings.apiKey # ""
                profile == sidebar.settings # NoSettings
                             /\ sidebar.settings.userProfile # Null
            IN  IF job /\ key /\ profile
                THEN /\ Len(sidebar'.work) = Len(sidebar.work) + 1
                     /\ sidebar'.error = Null
                ELSE /\ sidebar'.work = sidebar.work
                     /\ sidebar'.sent = sidebar.sent
                     /\ sidebar'.isGenerating = sidebar.isGenerating
                     /\ sidebar'.error = IF ~job THEN NoJobData
                                         ELSE IF ~key THEN NoApiKey
                                         ELSE NoUserProfile
      ]_allVars

\* C25 witness: with a job, a key and a profile in its state the side panel
\* has sent generateResume with that job
C25_Witness ==
    /\ sidebar.currentJob = [title |-> "Staff Engineer"]
    /\ sidebar.settings = [apiKey |-> "sk-A", userProfile |-> "profile A"]
    /\ lastOp = "sendMessage"
    /\ sidebar.sent = << [action |-> "generateResume",
                          jobData |-> [title |-> "Staff Engineer"]] >>

\* C25: a click on analyze-job with a job and a key but no profile was
\* refused with the profile error, nothing was sent
C25_RefusedWithoutProfile ==
    /\ lastOp = "handleAnalyzeJob"
    /\ sidebar.currentJob # NoJob
    /\ sidebar.settings = [apiKey |-> "sk-A", userProfile |-> Null]
    /\ sidebar.error = NoUserProfile
    /\ sidebar.sent = << >>

\* C26 as claimed: after a page check that ended with 'No job detected' or
\* 'Error scanning page', currentJob is null
C26_NoJobAfterFailedCheck ==
    sidebar.status \in {"No job detected", "Error scanning page"}
        => sidebar.currentJob = NoJob

\* C26: the first check found a posting, the refresh ended with 'No job
\* detected', and the generateResume request sent after it carries the
\* posting of the first check
C26_AnalyzeRunsOnEarlierJob ==
    /\ sidebar.status = "No job detected"
    /\ Len(sidebar.work) = 3
    /\ sidebar.work[1] = Work("check", "done", "click")
    /\ sidebar.work[2] = Work("check", "done", "click")
    /\ sidebar.work[3] = Work("resume", "request", "click")
    /\ sidebar.sent = << [action |-> "generateResume",
                          jobData |-> [title |-> "Data Analyst"]] >>

(***************************************************************************)
(* The Logger (utils/logger.js) of a page.  log() is synchronous; the      *)
(* storeError() it starts for an error entry awaits the storage twice, and *)
(* other log calls and other storeError calls run in between.  The buffer  *)
(* size (1000) and the number of stored errors kept (50) are scaled down.  *)
(***************************************************************************)

\* this.maxLogs, 1000 in the constructor
maxLogs == 2

\* the stored errors storeError keeps, 50 in the source
ErrorsKept == 2

\* calls of log() in one behaviour
MaxLogCalls == 3

levels == << "debug", "info", "warn", "error" >>

\* levels.indexOf(level)
IndexOfLevel(level) == CHOOSE k \in 1..Len(levels) : levels[k] = level

\* shouldLog(level) under this.logLevel
shouldLog(logLevel, level) == IndexOfLevel(level) >= IndexOfLevel(logLevel)

\* array.slice(start): from start, counted from the end when start is
\* negative; -0 is 0
Slice(s, start) ==
    LET from == IF start < 0 THEN (IF Len(s) + start < 0 THEN 0 ELSE Len(s) + start)
                ELSE (IF start > Len(s) THEN Len(s) ELSE start)
    IN  SubSeq(s, from + 1, Len(s))

\* log() keeping the oldest entries of a full buffer
log_KeepsOldest(lg, level) ==
    LET logEntry == [timestamp |-> Len(lg.logged) + 1, level |-> level]
        pushed == Append(lg.logs, logEntry)
    IN  [lg EXCEPT
            !.logged = Append(@, logEntry),
            !.logs = IF Len(pushed) > maxLogs THEN SubSeq(pushed, 1, maxLogs) ELSE pushed,
            !.console = IF shouldLog(lg.logLevel, level) THEN Append(@, logEntry) ELSE @,
            !.calls = IF level = "error"
                      THEN Append(@, [entry |-> logEntry, pc |-> "get", errors |-> << >>])
                      ELSE @]

\* log(level, message): the entry is pushed and the buffer cut to its last
\* maxLogs entries, the console gets the entry if shouldLog, and an error
\* entry starts storeError, which runs to its await of storage.get
log(lg, level) ==
    LET logEntry == [timestamp |-> Len(lg.logged) + 1, level |-> level]
        pushed == Append(lg.logs, logEntry)
    IN  [lg EXCEPT
            !.logged = Append(@, logEntry),
            !.logs = IF Len(pushed) > maxLogs THEN Slice(pushed, 0 - maxLogs) ELSE pushed,
            !.console = IF shouldLog(lg.logLevel, level) THEN Append(@, logEntry) ELSE @,
            !.calls = IF level = "error"
                      THEN Append(@, [entry |-> logEntry, pc |-> "get", errors |-> << >>])
                      ELSE @]

\* storeError() number i once storage.get has settled: the entry is pushed
\* to the list read, the list is cut to its last entries and handed to
\* storage.set
storeError_Read(lg, i, ok) ==
    IF ~ok THEN [lg EXCEPT !.calls[i].pc = "failed"]
    ELSE LET errors == Append(lg.stored, lg.calls[i].entry)
         IN  [lg EXCEPT
                !.calls[i].pc = "set",
                !.calls[i].errors =
                    IF Len(errors) > ErrorsKept
                    THEN SubSeq(errors, Len(errors) - ErrorsKept + 1, Len(errors))
                    ELSE errors]

\* storeError() number i once storage.set has settled
storeError_Written(lg, i, ok) ==
    IF ok THEN [lg EXCEPT !.stored = lg.calls[i].errors, !.calls[i].pc = "done"]
    ELSE [lg EXCEPT !.calls[i].pc = "failed"]

\* getLogs(level, limit)
getLogs(lg, level, limit) ==
    LET filteredLogs == IF Truthy(level)
                        THEN SelectSeq(lg.logs, LAMBDA e : e.level = level)
                        ELSE lg.logs
    IN  Slice(filteredLogs, 0 - limit)

\* new Logger(): an empty buffer; logged is the list of all entries log()
\* has made, console the entries printed, stored the item 'errors' of the
\* storage, calls the storeError calls
InitLogger ==
    /\ \E l \in {"info", "error"} :
        logger = [logLevel |-> l, logs |-> << >>, logged |-> << >>,
                  console |-> << >>, stored |-> << >>, calls |-> << >>]
    /\ sidebar = [isNull |-> TRUE]
    /\ NoContentScript
    /\ NoBackground

\* debug(), info(), warn() or error() is called
Log ==
    /\ Len(logger.logged) < MaxLogCalls
    /\ \E k \in 1..Len(levels) : logger' = log(logger, levels[k])
    /\ lastOp' = "log"
    /\ UNCHANGED << page, isJobPage, jobData, records, timers, notified, response, arg, ret, delivery, sidebar, backgroundVars >>

\* the storage.get of a storeError call settles
ErrorsRead ==
    /\ \E i \in 1..Len(logger.calls) : \E ok \in BOOLEAN :
        /\ logger.calls[i].pc = "get"
        /\ logger' = storeError_Read(logger, i, ok)
    /\ lastOp' = "storeError"
    /\ UNCHANGED << page, isJobPage, jobData, records, timers, notified, response, arg, ret, delivery, sidebar, backgroundVars >>

\* the storage.set of a storeError call settles
ErrorsWritten ==
    /\ \E i \in 1..Len(logger.calls) : \E ok \in BOOLEAN :
        /\ logger.calls[i].pc = "set"
        /\ logger' = storeError_Written(logger, i, ok)
    /\ lastOp' = "storeError"
    /\ UNCHANGED << page, isJobPage, jobData, records, timers, notified, response, arg, ret, delivery, sidebar, backgroundVars >>

\* getLogs(level, limit) is called; arg is the pair of its arguments, ret
\* the list it returns
GetLogs ==
    /\ \E level \in {Null, "info", "error"} : \E limit \in 0..2 :
        /\ arg' = << level, limit >>
        /\ ret' = getLogs(logger, level, limit)
    /\ lastOp' = "getLogs"
    /\ UNCHANGED << page, isJobPage, jobData, records, timers, notified, response, delivery, sidebar, logger, backgroundVars >>

NextLogger == Log \/ ErrorsRead \/ ErrorsWritten \/ GetLogs

SpecLogger == InitLogger /\ [][NextLogger]_allVars

\* C28: after any sequence of log calls the buffer holds at most maxLogs
\* entries, and they are the entries logged last, in call order, whatever
\* their level and whatever the console prints under this.logLevel
C28_BufferHoldsLatest ==
    LET n == Len(logger.logged)
        kept == IF n > maxLogs THEN maxLogs ELSE n
    IN  /\ Len(logger.logs) = kept
        /\ Len(logger.logs) <= maxLogs
        /\ \A k \in 1..kept : logger.logs[k] = logger.logged[n - kept + k]

\* C28 witness: three entries were logged into a buffer of two while the
\* console shows errors only: the buffer holds the last two, an info and a
\* debug entry that were not printed, and the first entry is gone
C28_Witness ==
    /\ logger.logLevel = "error"
    /\ Len(logger.logged) = 3
    /\ logger.logged[1].level = "error"
    /\ logger.logs = << [timestamp |-> 2, level |-> "info"],
                        [timestamp |-> 3, level |-> "debug"] >>
    /\ logger.console = << [timestamp |-> 1, level |-> "error"] >>

\* C29 as claimed: getLogs(level, limit) returns at most limit entries, for
\* every limit >= 0: the last of the buffered entries of that level (of all
\* entries without a level), in logging order
C29_AtMostLimit ==
    lastOp = "getLogs" =>
        LET level == arg[1]
            limit == arg[2]
            matching == IF level = Null THEN logger.logs
                        ELSE SelectSeq(logger.logs, LAMBDA e : e.level = level)
            n == IF Len(matching) < limit THEN Len(matching) ELSE limit
        IN  /\ Len(ret) <= limit
            /\ ret = SubSeq(matching, Len(matching) - n + 1, Len(matching))

\* C29: for every limit above 0 getLogs returns the last limit entries of
\* the level asked for
C29_AtMostPositiveLimit ==
    lastOp = "getLogs" /\ arg[2] > 0 =>
        LET level == arg[1]
            limit == arg[2]
            matching == IF level = Null THEN logger.logs
                        ELSE SelectSeq(logger.logs, LAMBDA e : e.level = level)
            n == IF Len(matching) < limit THEN Len(matching) ELSE limit
        IN  /\ Len(ret) <= limit
            /\ ret = SubSeq(matching, Len(matching) - n + 1, Len(matching))

\* C29: getLogs(null, 0) has returned the two entries of the buffer
C29_LimitZeroReturnsAll ==
    /\ lastOp = "getLogs"
    /\ arg = << Null, 0 >>
    /\ Len(logger.logs) = 2
    /\ ret = logger.logs

\* C24 as claimed: once the storeError calls that were started are through,
\* none of them having failed on the storage, every error entry logged is in
\* the stored list, except those that the cut to the last ErrorsKept entries
\* has removed
C24_NoErrorLost ==
    (\A i \in 1..Len(logger.calls) : logger.calls[i].pc = "done") =>
        LET errors == SelectSeq(logger.logged, LAMBDA e : e.level = "error")
            n == Len(errors)
            kept == IF n > ErrorsKept THEN ErrorsKept ELSE n
        IN  logger.stored = SubSeq(errors, n - kept + 1, n)

\* C24: two error entries were logged one after the other, both storeError
\* calls read the empty list ahead of either write, both writes succeeded,
\* and the stored list holds the second entry only
C24_OverlapLosesEntry ==
    /\ Len(logger.calls) = 2
    /\ logger.calls[1].pc = "done"
    /\ logger.calls[2].pc = "done"
    /\ logger.calls[1].errors = << logger.calls[1].entry >>
    /\ logger.calls[2].errors = << logger.calls[2].entry >>
    /\ logger.stored = << logger.calls[2].entry >>

(***************************************************************************)
(* cleanupOldData (background.js), run by the hourly 'cleanup' alarm.  arg *)
(* is what the alarm finds: settings.advanced.dataRetention in days and    *)
(* the items currentJob and lastJobDetection of the storage, the latter as *)
(* the list of its age in hours, empty without the item; ret is what the   *)
(* run leaves.                                                             *)
(***************************************************************************)

\* what the storage and the badge hold
Stored(job, age, badge) ==
    [currentJob |-> job, lastJobDetection |-> age, badge |-> badge]

\* this.settings.advanced?.dataRetention || 30
retentionDays(dataRetention) == IF dataRetention = 0 THEN 30 ELSE dataRetention

\* cleanupOldData() once storage.get has answered: whether it goes on to
\* remove the two items
cleanupOldData_Removes(dataRetention, lastJobDetection) ==
    /\ lastJobDetection # << >>
    /\ lastJobDetection[1] > retentionDays(dataRetention) * 24

CleanupInputs ==
    { [dataRetention |-> d, stored |-> Stored(job, << age >>, "!")] :
        d \in {0, 1, 7, 30},
        job \in {"posting A", "posting B"},
        age \in {0, 1, 24, 25, 169, 721} }
    \cup { [dataRetention |-> d, stored |-> Stored(Null, << >>, "")] : d \in {0, 1, 7, 30} }

InitCleanup ==
    /\ arg \in CleanupInputs
    /\ ret = NoValue
    /\ page = Page(AcmeAbout, << >>)
    /\ isJobPage = FALSE
    /\ jobData = NoJob
    /\ records = << >>
    /\ timers = << >>
    /\ notified = << >>
    /\ delivery = "none"
    /\ response = NoResponse
    /\ lastOp = "init"
    /\ NoBackground
    /\ NoPanel

\* the alarm fires and storage.get(['lastJobDetection']) settles: the run
\* ends here, or it awaits storage.remove
CleanupRead ==
    /\ lastOp = "init"
    /\ \E ok \in BOOLEAN :
        IF ok /\ cleanupOldData_Removes(arg.dataRetention, arg.stored.lastJobDetection)
        THEN /\ lastOp' = "remove"
             /\ ret' = [failed |-> FALSE, stored |-> arg.stored]
        ELSE /\ lastOp' = "cleanupOldData"
             /\ ret' = [failed |-> ~ok, stored |-> arg.stored]
    /\ UNCHANGED << page, isJobPage, jobData, records, timers, notified, response, arg, delivery, backgroundVars, panelVars >>

\* storage.remove(['currentJob', 'lastJobDetection']) settles: the items
\* are gone and the badge is cleared, or the error is caught
CleanupRemoved ==
    /\ lastOp = "remove"
    /\ \E ok \in BOOLEAN :
        ret' = IF ok THEN [failed |-> FALSE, stored |-> Stored(Null, << >>, "")]
               ELSE [failed |-> TRUE, stored |-> arg.stored]
    /\ lastOp' = "cleanupOldData"
    /\ UNCHANGED << page, isJobPage, jobData, records, timers, notified, response, arg, delivery, backgroundVars, panelVars >>

NextCleanup == CleanupRead \/ CleanupRemoved

SpecCleanup == InitCleanup /\ [][NextCleanup]_allVars

\* C27 as claimed: a run of cleanupOldData on a storage that answers removes
\* currentJob and lastJobDetection and clears the badge exactly when the
\* last detection is older than the configured retention in days, 0
\* included; otherwise it leaves the storage as it was
C27_RemovesExactlyWhenOlder ==
    lastOp = "cleanupOldData" /\ ~ret.failed =>
        IF arg.stored.lastJobDetection # << >>
            /\ arg.stored.lastJobDetection[1] > arg.dataRetention * 24
        THEN ret.stored = Stored(Null, << >>, "")
        ELSE ret.stored = arg.stored

\* C27: for every retention other than 0 the run removes exactly when the
\* last detection is older than the retention
C27_RemovesExactlyWhenOlderNonZero ==
    lastOp = "cleanupOldData" /\ ~ret.failed /\ arg.dataRetention # 0 =>
        IF arg.stored.lastJobDetection # << >>
            /\ arg.stored.lastJobDetection[1] > arg.dataRetention * 24
        THEN ret.stored = Stored(Null, << >>, "")
        ELSE ret.stored = arg.stored

\* C27: with a retention of 0 days a posting detected 25 hours ago is still
\* in the storage after the run
C27_ZeroRetentionKeeps ==
    /\ lastOp = "cleanupOldData"
    /\ ~ret.failed
    /\ arg.dataRetention = 0
    /\ arg.stored.lastJobDetection = << 25 >>
    /\ ret.stored = arg.stored
    /\ ret.stored.currentJob = "posting A"

====
